---- MODULE Spec2Model ----
(***************************************************************************)
(* External leases index (vdsm.storage.xlease).                            *)
(*                                                                         *)
(* The index slot of the xleases volume is modelled byte by byte: the      *)
(* storage and the in-memory buffer of a VolumeIndex are sequences of      *)
(* bytes (integers 0..255), records are packed and unpacked as             *)
(* RECORD_STRUCT does, and find_record is the byte search of mmap.find.    *)
(* Byte offsets are 0-based as in the source; the byte at offset o of a    *)
(* buffer buf is buf[o + 1].                                               *)
(***************************************************************************)
EXTENDS Integers, Sequences, FiniteSets, TLC

VARIABLES
    storage,    \* bytes of the index slot on shared storage (file offsets
                \* INDEX_BASE .. INDEX_BASE + INDEX_SIZE - 1)
    resources,  \* sanlock resources on storage, by offset in the volume
    index,      \* VolumeIndex._buf of the LeasesVolume instance
    pc,         \* operation the instance is running and its position
    result,     \* outcome of the call of the instance that just returned
    rd,         \* outcomes of the lookups that another host just made
    calls,      \* storage writes and sanlock calls of the operation that
                \* runs or that just returned
    faults,     \* errors and crashes so far
    added,      \* history: for each lease id, the LeaseInfo that the last
                \* successful add returned if remove was not called since
    db,         \* managedvolumedb: the class attributes of _DB, the handles
                \* of the process and the database files
    other_index \* the index of a second LeasesVolume on the volume, while
                \* it runs no operation

vars ==
    <<storage, resources, index, pc, result, rd, calls, faults, added, db,
      other_index>>

----------------------------------------------------------------------------
(* Bounds *)

\* Records per storage block (BLOCK_SIZE / RECORD_SIZE, 8 in the source).
RecordsPerBlock == 2

\* Blocks of records in the index (500 in the source).
RecordBlocks == 2

\* Number of records in the index (4000 in the source, a whole number of
\* blocks).
MAX_RECORDS == RecordBlocks * RecordsPerBlock

\* Errors of storage and of sanlock, and crashes, in one run.
MaxFaults == 1

\* Lease ids the callers use: "a", "b", "ab", "c", "d"; one more than there
\* are records.
LeaseIds == {<<97>>, <<98>>, <<97, 98>>, <<99>>, <<100>>}

----------------------------------------------------------------------------
(* Constants of xlease.py *)

RECORD_SIZE == 64

\* Field widths of RECORD_STRUCT = "48s x 11s x 3c" and LOOKUP_STRUCT.
RESOURCE_LEN == 48
OFFSET_LEN == 11

BLOCK_SIZE == RecordsPerBlock * RECORD_SIZE

SLOT_SIZE == 2048 * BLOCK_SIZE

INDEX_BASE == SLOT_SIZE
USER_RESOURCE_BASE == 3 * SLOT_SIZE

METADATA_SIZE == BLOCK_SIZE
RECORD_BASE == METADATA_SIZE

INDEX_SIZE == METADATA_SIZE + (MAX_RECORDS * RECORD_SIZE)

BLANK_LEASE == <<>>

\* b"\0", b"\n", b"-", b"u", b"0"
NUL == 0
RECORD_TERM == 10
FLAG_NONE == 45
FLAG_UPDATING == 117
ZERO_DIGIT == 48

\* The lockspace of the LeasesVolume and the path of its file.
LOCKSPACE == "lockspace"
PATH == "xleases"

\* lease_offset that does not scale the record number by the slot size.
lease_offset_unscaled(recnum) == USER_RESOURCE_BASE + recnum

lease_offset(recnum) == USER_RESOURCE_BASE + (recnum * SLOT_SIZE)

----------------------------------------------------------------------------
(* struct and bytes helpers *)

\* struct "<n>s": the value truncated or padded with zero bytes to n bytes.
PackString(s, n) == [k \in 1..n |-> IF k <= Len(s) THEN s[k] ELSE NUL]

\* bytes.rstrip(b"\0"): s up to its last byte that is not zero.
RStripNul(s) ==
    LET last == CHOOSE k \in 0..Len(s) :
                    /\ k = 0 \/ s[k] /= NUL
                    /\ \A j \in (k + 1)..Len(s) : s[j] = NUL
    IN SubSeq(s, 1, last)

\* The decimal digits of n >= 0, most significant first.
RECURSIVE DecimalDigits(_)
DecimalDigits(n) ==
    IF n < 10 THEN <<ZERO_DIGIT + n>>
    ELSE Append(DecimalDigits(n \div 10), ZERO_DIGIT + (n % 10))

\* b"%d" % n: no zero padding.
FormatOffset_unpadded(n) == DecimalDigits(n)

\* b"%011d" % n
FormatOffset(n) ==
    LET d == DecimalDigits(n)
    IN IF Len(d) >= OFFSET_LEN THEN d
       ELSE [k \in 1..(OFFSET_LEN - Len(d)) |-> ZERO_DIGIT] \o d

IsDigit(b) == b >= ZERO_DIGIT /\ b <= ZERO_DIGIT + 9

\* int(b) for a bytes value made of decimal digits.
RECURSIVE ParseDigits(_)
ParseDigits(s) ==
    IF Len(s) = 0 THEN 0
    ELSE 10 * ParseDigits(SubSeq(s, 1, Len(s) - 1))
         + (s[Len(s)] - ZERO_DIGIT)

\* buf[offset:offset + size]
Slice(buf, offset, size) == SubSeq(buf, offset + 1, offset + size)

\* buf.seek(offset); buf.write(data)
WriteAt(buf, offset, data) ==
    SubSeq(buf, 1, offset)
    \o data
    \o SubSeq(buf, offset + Len(data) + 1, Len(buf))

\* Whether data occurs in buf at offset: the bytes of buf from offset are
\* those of data (the first and the last byte are compared first).
MatchAt(buf, data, offset) ==
    \/ Len(data) = 0
    \/ /\ buf[offset + 1] = data[1]
       /\ buf[offset + Len(data)] = data[Len(data)]
       /\ Slice(buf, offset, Len(data)) = data

\* A search that gives the highest offset where data occurs.
Find_last(buf, data, start) ==
    LET found == {offset \in start..(Len(buf) - Len(data)) :
                     MatchAt(buf, data, offset)}
    IN IF found = {} THEN -1
       ELSE CHOOSE offset \in found : \A other \in found : offset >= other

\* buf.find(data, start): lowest offset >= start where data occurs, or -1.
Find(buf, data, start) ==
    LET found == {offset \in start..(Len(buf) - Len(data)) :
                     MatchAt(buf, data, offset)}
    IN IF found = {} THEN -1
       ELSE CHOOSE offset \in found : \A other \in found : offset <= other

----------------------------------------------------------------------------
(* Record *)

Record(resource, offset, updating) ==
    [resource |-> resource, offset |-> offset, updating |-> updating]

InvalidRecord(reason) == [invalid |-> reason]

IsInvalidRecord(r) == "invalid" \in DOMAIN r

\* Record.bytes that always writes FLAG_NONE.
Record_bytes_flag_none(record) ==
    PackString(record.resource, RESOURCE_LEN)
    \o <<NUL>>
    \o PackString(FormatOffset(record.offset), OFFSET_LEN)
    \o <<NUL>>
    \o <<FLAG_NONE, FLAG_NONE, RECORD_TERM>>

\* Record.bytes
Record_bytes(record) ==
    PackString(record.resource, RESOURCE_LEN)
    \o <<NUL>>
    \o PackString(FormatOffset(record.offset), OFFSET_LEN)
    \o <<NUL>>
    \o <<IF record.updating THEN FLAG_UPDATING ELSE FLAG_NONE,
         FLAG_NONE, RECORD_TERM>>

\* Record.frombytes.  The pad bytes ("x") and the last two chars are not
\* looked at.  int() is modelled on strings of decimal digits; anything
\* else is reported as unparsable.
Record_frombytes(data) ==
    IF Len(data) /= RECORD_SIZE THEN InvalidRecord("cannot unpack")
    ELSE
        LET resource == RStripNul(Slice(data, 0, RESOURCE_LEN))
            offset == Slice(data, RESOURCE_LEN + 1, OFFSET_LEN)
            updating == data[RESOURCE_LEN + 1 + OFFSET_LEN + 1 + 1]
        IN IF \E k \in 1..Len(resource) : resource[k] >= 128
           THEN InvalidRecord("cannot decode resource")
           ELSE IF \E k \in 1..Len(offset) : ~IsDigit(offset[k])
           THEN InvalidRecord("cannot parse offset")
           ELSE Record(resource, ParseDigits(offset),
                       updating = FLAG_UPDATING)

----------------------------------------------------------------------------
(* VolumeIndex *)

VolumeIndex_record_offset(recnum) == RECORD_BASE + recnum * RECORD_SIZE

VolumeIndex_record_number(offset) == (offset - RECORD_BASE) \div RECORD_SIZE

\* VolumeIndex.__init__: file.seek(INDEX_BASE); file.readinto(self._buf)
VolumeIndex_init(file) == file

find_record(buf, lease_id) ==
    LET prefix == PackString(lease_id, RESOURCE_LEN) \o <<NUL>>
        offset == Find(buf, prefix, RECORD_BASE)
    IN IF offset = -1 THEN -1 ELSE VolumeIndex_record_number(offset)

read_record(buf, recnum) ==
    Record_frombytes(Slice(buf, VolumeIndex_record_offset(recnum),
                           RECORD_SIZE))

VolumeIndex_write_record(buf, recnum, record) ==
    WriteAt(buf, VolumeIndex_record_offset(recnum), Record_bytes(record))

\* VolumeIndex.dump: file.seek(INDEX_BASE); file.write(self._buf)
VolumeIndex_dump(buf, file) == WriteAt(file, INDEX_BASE - INDEX_BASE, buf)

\* RecordBlock.__init__ that does not copy the block of the index.
RecordBlock_blank(index_buf, offset) ==
    [offset |-> offset, buf |-> [k \in 1..BLOCK_SIZE |-> NUL]]

RecordBlock(index_buf, offset) ==
    [offset |-> offset, buf |-> Slice(index_buf, offset, BLOCK_SIZE)]

copy_block(buf, recnum) ==
    LET offset == VolumeIndex_record_offset(recnum)
        block_start == offset - (offset % BLOCK_SIZE)
    IN RecordBlock(buf, block_start)

----------------------------------------------------------------------------
(* RecordBlock *)

\* _record_offset that takes the end of the block for the last offset.
RecordBlock_record_offset_loose(block, recnum) ==
    LET offset == RECORD_BASE + recnum * RECORD_SIZE - block.offset
        last_offset == BLOCK_SIZE
    IN IF ~(0 <= offset /\ offset <= last_offset) THEN -1 ELSE offset

\* RecordBlock._record_offset: -1 stands for ValueError.
RecordBlock_record_offset(block, recnum) ==
    LET offset == RECORD_BASE + recnum * RECORD_SIZE - block.offset
        last_offset == BLOCK_SIZE - RECORD_SIZE
    IN IF ~(0 <= offset /\ offset <= last_offset) THEN -1 ELSE offset

\* RecordBlock.write_record, for a recnum inside the block.
RecordBlock_write_record(block, recnum, record) ==
    [block EXCEPT !.buf =
        WriteAt(block.buf, RecordBlock_record_offset(block, recnum),
                Record_bytes(record))]

\* RecordBlock.dump that writes only the first byte of the block.
RecordBlock_dump_torn(block, file) ==
    WriteAt(file, (INDEX_BASE + block.offset) - INDEX_BASE,
            Slice(block.buf, 0, 1))

\* RecordBlock.dump: file.seek(INDEX_BASE + self._offset);
\* file.write(self._buf)
RecordBlock_dump(block, file) ==
    WriteAt(file, (INDEX_BASE + block.offset) - INDEX_BASE, block.buf)

----------------------------------------------------------------------------
(* format_index, on a file whose index slot was read into buf *)

RECURSIVE FormatRecords(_, _)
FormatRecords(buf, recnum) ==
    IF recnum = MAX_RECORDS THEN buf
    ELSE FormatRecords(
            VolumeIndex_write_record(
                buf, recnum, Record(BLANK_LEASE, lease_offset(recnum), FALSE)),
            recnum + 1)

\* format_index that leaves the last record as it was.
format_index_but_last(file) ==
    LET buf == FormatRecords(VolumeIndex_init(file), 0)
        last == VolumeIndex_record_offset(MAX_RECORDS - 1)
    IN VolumeIndex_dump(WriteAt(buf, last, Slice(file, last, RECORD_SIZE)),
                        file)

format_index(file) ==
    VolumeIndex_dump(FormatRecords(VolumeIndex_init(file), 0), file)

----------------------------------------------------------------------------
(* sanlock *)

\* The lease offsets of the user resource slots of the volume.
LeaseOffsets == {lease_offset(recnum) : recnum \in 0..(MAX_RECORDS - 1)}

\* A slot holding no resource: never written, or written with empty
\* lockspace and resource names.
NoResource == <<"", <<>>>>

\* write_resource that does not write the empty resource.
write_resource_keep(res, lockspace, resource, offset) ==
    IF lockspace = "" THEN res
    ELSE [res EXCEPT ![offset] = <<lockspace, resource>>]

\* sanlock.write_resource(lockspace, resource, [(path, offset)])
write_resource(res, lockspace, resource, offset) ==
    [res EXCEPT ![offset] = <<lockspace, resource>>]

----------------------------------------------------------------------------
(* LeasesVolume *)

LeaseInfo(lockspace, resource, path, offset) ==
    <<lockspace, resource, path, offset>>

Return(value) == [status |-> "ok", value |-> value]
Raise(error) == [status |-> error, value |-> <<>>]

\* How a write to the file followed by fsync can end: both succeed; the
\* write raises and storage is unchanged; the data reached storage and an
\* error is raised after that (fsync fails).
WriteOutcomes == {"ok", "error_before_write", "error_after_write"}

\* _write_record that does not write the record to the index.
_write_record_storage_only(file, buf, recnum, record, outcome) ==
    LET block == copy_block(buf, recnum)
        written == RecordBlock_write_record(block, recnum, record)
    IN [storage |-> IF outcome = "error_before_write" THEN file
                    ELSE RecordBlock_dump(written, file),
        index |-> buf,
        raised |-> IF outcome = "ok" THEN "" ELSE "OSError"]

\* _write_record that writes the record to the index before the block is
\* written to storage.
_write_record_index_first(file, buf, recnum, record, outcome) ==
    LET block == copy_block(buf, recnum)
        written == RecordBlock_write_record(block, recnum, record)
    IN [storage |-> IF outcome = "error_before_write" THEN file
                    ELSE RecordBlock_dump(written, file),
        index |-> VolumeIndex_write_record(buf, recnum, record),
        raised |-> IF outcome = "ok" THEN "" ELSE "OSError"]

\* LeasesVolume._write_record.  Gives the storage and the index after the
\* call and whether it raised.
_write_record(file, buf, recnum, record, outcome) ==
    LET block == copy_block(buf, recnum)
    IN IF RecordBlock_record_offset(block, recnum) = -1
       THEN [storage |-> file, index |-> buf, raised |-> "ValueError"]
       ELSE LET written == RecordBlock_write_record(block, recnum, record)
            IN [storage |-> IF outcome = "error_before_write" THEN file
                            ELSE RecordBlock_dump(written, file),
                index |-> IF outcome = "ok"
                          THEN VolumeIndex_write_record(buf, recnum, record)
                          ELSE buf,
                raised |-> IF outcome = "ok" THEN "" ELSE "OSError"]

\* A lookup that returns the offset stored in the record.
lookup_stored_offset(buf, lease_id) ==
    LET recnum == find_record(buf, lease_id)
    IN IF recnum = -1 THEN Raise("NoSuchLease")
       ELSE LET record == read_record(buf, recnum)
            IN IF IsInvalidRecord(record) THEN Raise("InvalidRecord")
               ELSE IF record.updating THEN Raise("LeaseUpdating")
               ELSE Return(LeaseInfo(LOCKSPACE, lease_id, PATH,
                                     record.offset))

\* LeasesVolume.lookup
lookup(buf, lease_id) ==
    LET recnum == find_record(buf, lease_id)
    IN IF recnum = -1 THEN Raise("NoSuchLease")
       ELSE LET record == read_record(buf, recnum)
            IN IF IsInvalidRecord(record) THEN Raise("InvalidRecord")
               ELSE IF record.updating THEN Raise("LeaseUpdating")
               ELSE Return(LeaseInfo(LOCKSPACE, lease_id, PATH,
                                     lease_offset(recnum)))

\* LeasesVolume.leases: the dict of the records with a resource; of two
\* records with the same resource the later one stays in the dict.
leases(buf) ==
    LET records == [recnum \in 0..(MAX_RECORDS - 1) |->
                        read_record(buf, recnum)]
    IN IF \E recnum \in DOMAIN records : IsInvalidRecord(records[recnum])
       THEN Raise("InvalidRecord")
       ELSE LET used == {recnum \in DOMAIN records :
                            records[recnum].resource /= <<>>}
                last(resource) ==
                    CHOOSE recnum \in used :
                        /\ records[recnum].resource = resource
                        /\ \A other \in used :
                              records[other].resource = resource
                                  => other <= recnum
            IN Return([resource \in {records[recnum].resource :
                                        recnum \in used} |->
                          [offset |-> lease_offset(last(resource)),
                           updating |-> records[last(resource)].updating]])

\* The checks of add without the test of the updating flag.
add_find_ignore_updating(buf, lease_id) ==
    LET recnum == find_record(buf, lease_id)
    IN IF recnum /= -1 THEN Raise("LeaseExists")
       ELSE LET free == find_record(buf, BLANK_LEASE)
            IN IF free = -1 THEN Raise("NoSpace") ELSE Return(free)

\* The checks of add where an existing record is written again.
add_find_readd(buf, lease_id) ==
    LET recnum == find_record(buf, lease_id)
    IN IF recnum /= -1
       THEN LET record == read_record(buf, recnum)
            IN IF IsInvalidRecord(record) THEN Raise("InvalidRecord")
               ELSE IF record.updating THEN Raise("LeaseUpdating")
               ELSE Return(recnum)
       ELSE LET free == find_record(buf, BLANK_LEASE)
            IN IF free = -1 THEN Raise("NoSpace") ELSE Return(free)

\* The checks of add where the last record is never allocated.
add_find_reserve_last(buf, lease_id) ==
    LET recnum == find_record(buf, lease_id)
    IN IF recnum /= -1
       THEN LET record == read_record(buf, recnum)
            IN IF IsInvalidRecord(record) THEN Raise("InvalidRecord")
               ELSE IF record.updating THEN Raise("LeaseUpdating")
               ELSE Raise("LeaseExists")
       ELSE LET free == find_record(buf, BLANK_LEASE)
            IN IF free = -1 \/ free = MAX_RECORDS - 1
               THEN Raise("NoSpace") ELSE Return(free)

\* The checks of LeasesVolume.add before anything is written: the error
\* raised, or the record number allocated for lease_id.
add_find(buf, lease_id) ==
    LET recnum == find_record(buf, lease_id)
    IN IF recnum /= -1
       THEN LET record == read_record(buf, recnum)
            IN IF IsInvalidRecord(record) THEN Raise("InvalidRecord")
               ELSE IF record.updating THEN Raise("LeaseUpdating")
               ELSE Raise("LeaseExists")
       ELSE LET free == find_record(buf, BLANK_LEASE)
            IN IF free = -1 THEN Raise("NoSpace") ELSE Return(free)

\* remove without the check that the lease exists.
remove_find_unchecked(buf, lease_id) ==
    LET recnum == find_record(buf, lease_id)
    IN IF recnum = -1 THEN Return(0) ELSE Return(recnum)

\* The check of LeasesVolume.remove before anything is written.
remove_find(buf, lease_id) ==
    LET recnum == find_record(buf, lease_id)
    IN IF recnum = -1 THEN Raise("NoSuchLease") ELSE Return(recnum)

----------------------------------------------------------------------------
(* State machine *)

Idle == [op |-> "idle", lease_id |-> <<>>, phase |-> 0, recnum |-> -1]

NoResult == [op |-> "", lease_id |-> <<>>, status |-> "", value |-> <<>>]

Result(op, lease_id, outcome) ==
    [op |-> op, lease_id |-> lease_id,
     status |-> outcome.status, value |-> outcome.value]

NoCalls == [write |-> 0, sanlock |-> 0]

\* managedvolumedb when the module is imported: _DB._env is _CLOSED_ENV,
\* _DB._users is 0, there are no handles; the database files do not exist.
\* The sub-databases hold nothing.  The fields stored, known, reopened
\* and creates are history: the connection info of the volumes that
\* add_volume stored and no call updated or removed since, the ids added
\* and not removed since, whether open created the environment anew after
\* a volume was stored, and whether create_db returned never, once or more
\* often.
NoDb == [env |-> "closed", users |-> 0, handles |-> <<>>, live |-> {},
         file |-> FALSE, dbs |-> {},
         volumes |-> [k \in {} |-> {}], multipaths |-> [k \in {} |-> {}],
         versions |-> [k \in {} |-> {}],
         stored |-> [k \in {} |-> {}], known |-> {}, reopened |-> FALSE,
         creates |-> 0]

\* A volume of zero bytes formatted by format_index, no sanlock resource
\* written yet, and a LeasesVolume constructed on it.
Init ==
    /\ storage = format_index([k \in 1..INDEX_SIZE |-> NUL])
    /\ resources = [offset \in LeaseOffsets |-> NoResource]
    /\ index = VolumeIndex_init(storage)
    /\ pc = Idle
    /\ result = NoResult
    /\ rd = {}
    /\ calls = NoCalls
    /\ faults = 0
    /\ added = [lease_id \in LeaseIds |-> <<>>]
    /\ db = NoDb
    /\ other_index = <<>>

\* The operation returns or raises.
Finish(op, lease_id, outcome) ==
    /\ result' = Result(op, lease_id, outcome)
    /\ pc' = Idle

\* The outcomes the environment can still produce.
Outcomes == IF faults < MaxFaults THEN WriteOutcomes ELSE {"ok"}

\* The callers have taken the outcomes of the calls that returned; nothing
\* else happens between a return and that.
Ready == result = NoResult /\ rd = {}

Fault(outcome) ==
    faults' = IF outcome = "ok" THEN faults ELSE faults + 1

\* One call of _write_record for lease_id, in phase 1 or 3 of add or remove;
\* when it succeeds the operation goes on to phase next, or returns value
\* when next is 0.
WritePhase(op, lease_id, recnum, record, next, value) ==
    \E outcome \in Outcomes :
        LET w == _write_record(storage, index, recnum, record, outcome)
        IN /\ storage' = w.storage
           /\ index' = w.index
           /\ calls' = [calls EXCEPT !.write = @ + 1]
           /\ Fault(outcome)
           /\ IF w.raised /= "" THEN Finish(op, lease_id, Raise(w.raised))
              ELSE IF next = 0 THEN Finish(op, lease_id, Return(value))
              ELSE /\ pc' = [op |-> op, lease_id |-> lease_id,
                             phase |-> next, recnum |-> recnum]
                   /\ result' = NoResult
           /\ UNCHANGED <<resources, rd>>

\* One call of sanlock.write_resource, in phase 2 of add or remove.
SanlockPhase(lockspace, resource) ==
    \E outcome \in Outcomes :
        /\ resources' = IF outcome = "error_before_write" THEN resources
                        ELSE write_resource(resources, lockspace, resource,
                                            lease_offset(pc.recnum))
        /\ calls' = [calls EXCEPT !.sanlock = @ + 1]
        /\ Fault(outcome)
        /\ IF outcome = "ok"
           THEN /\ pc' = [pc EXCEPT !.phase = 3]
                /\ result' = NoResult
           ELSE Finish(pc.op, pc.lease_id, Raise("SanlockException"))
        /\ UNCHANGED <<storage, index, rd>>

\* LeasesVolume.lookup(lease_id) on the instance.
lookup_call(lease_id) ==
    /\ Ready
    /\ pc = Idle
    /\ Finish("lookup", lease_id, lookup(index, lease_id))
    /\ UNCHANGED <<storage, resources, index, rd, calls, faults, added, db,
                   other_index>>

\* LeasesVolume.add(lease_id) up to the first write to storage.
add_phase1(lease_id) ==
    /\ Ready
    /\ pc = Idle
    /\ LET found == add_find(index, lease_id)
       IN IF found.status /= "ok"
          THEN /\ Finish("add", lease_id, found)
               /\ UNCHANGED <<storage, resources, index, rd, calls, faults>>
          ELSE WritePhase("add", lease_id, found.value,
                          Record(lease_id, lease_offset(found.value), TRUE),
                          2, <<>>)
    /\ UNCHANGED <<added, db, other_index>>

add_phase2 ==
    /\ Ready
    /\ pc.op = "add" /\ pc.phase = 2
    /\ SanlockPhase(LOCKSPACE, pc.lease_id)
    /\ UNCHANGED <<added, db, other_index>>

add_phase3 ==
    /\ Ready
    /\ pc.op = "add" /\ pc.phase = 3
    /\ WritePhase("add", pc.lease_id, pc.recnum,
                  Record(pc.lease_id, lease_offset(pc.recnum), FALSE),
                  0, LeaseInfo(LOCKSPACE, pc.lease_id, PATH,
                               lease_offset(pc.recnum)))
    /\ added' = IF result'.status = "ok"
                THEN [added EXCEPT ![pc.lease_id] = result'.value]
                ELSE added
    /\ UNCHANGED <<db, other_index>>

\* LeasesVolume.remove(lease_id) up to the first write to storage.
remove_phase1(lease_id) ==
    /\ Ready
    /\ pc = Idle
    /\ LET found == remove_find(index, lease_id)
       IN IF found.status /= "ok"
          THEN /\ Finish("remove", lease_id, found)
               /\ UNCHANGED <<storage, resources, index, rd, calls, faults>>
          ELSE WritePhase("remove", lease_id, found.value,
                          Record(lease_id, lease_offset(found.value), TRUE),
                          2, <<>>)
    /\ added' = [added EXCEPT ![lease_id] = <<>>]
    /\ UNCHANGED <<db, other_index>>

remove_phase2 ==
    /\ Ready
    /\ pc.op = "remove" /\ pc.phase = 2
    /\ SanlockPhase("", <<>>)
    /\ UNCHANGED <<added, db, other_index>>

remove_phase3 ==
    /\ Ready
    /\ pc.op = "remove" /\ pc.phase = 3
    /\ WritePhase("remove", pc.lease_id, pc.recnum,
                  Record(BLANK_LEASE, lease_offset(pc.recnum), FALSE),
                  0, <<>>)
    /\ UNCHANGED <<added, db, other_index>>

\* The host of the instance crashes in the middle of an operation and a new
\* LeasesVolume is constructed on the volume, loading the index from
\* storage.
Crash ==
    /\ Ready
    /\ pc /= Idle
    /\ faults < MaxFaults
    /\ faults' = faults + 1
    /\ index' = VolumeIndex_init(storage)
    /\ pc' = Idle
    /\ result' = NoResult
    /\ calls' = NoCalls
    /\ UNCHANGED <<storage, resources, rd, added, db, other_index>>

\* The instance is closed between operations and a new LeasesVolume is
\* constructed on the volume.
Reopen ==
    /\ Ready
    /\ pc = Idle
    /\ index /= storage
    /\ index' = VolumeIndex_init(storage)
    /\ UNCHANGED <<storage, resources, pc, result, rd, calls, faults, added, db,
                   other_index>>

\* The callers take the outcomes of the calls that returned.
TakeResult ==
    /\ ~Ready
    /\ result' = NoResult
    /\ rd' = {}
    /\ calls' = IF pc = Idle THEN NoCalls ELSE calls
    /\ UNCHANGED <<storage, resources, index, pc, faults, added, db,
                   other_index>>

\* Another host constructs a LeasesVolume on the volume, at any point of an
\* operation of the instance, and looks up the lease ids.
ReaderLookup ==
    /\ Ready
    /\ rd' = LET other == VolumeIndex_init(storage)
             IN {Result("lookup", lease_id, lookup(other, lease_id)) :
                    lease_id \in LeaseIds}
    /\ UNCHANGED <<storage, resources, index, pc, result, calls, faults, added, db,
                   other_index>>

Next ==
    \/ \E lease_id \in LeaseIds : lookup_call(lease_id)
    \/ \E lease_id \in LeaseIds : add_phase1(lease_id)
    \/ add_phase2
    \/ add_phase3
    \/ \E lease_id \in LeaseIds : remove_phase1(lease_id)
    \/ remove_phase2
    \/ remove_phase3
    \/ Crash
    \/ Reopen
    \/ TakeResult
    \/ ReaderLookup

Spec == Init /\ [][Next]_vars

----------------------------------------------------------------------------
(* Properties *)

Records == 0..(MAX_RECORDS - 1)

\* The records of buf that decode and hold resource.
RecordsOf(buf, resource) ==
    {recnum \in Records :
        LET record == read_record(buf, recnum)
        IN ~IsInvalidRecord(record) /\ record.resource = resource}

\* C1: storage never holds a record with a resource and the updating flag
\* clear unless sanlock's resource for the lockspace and that resource is
\* written at the lease offset of the record, whatever add or remove did,
\* failed to do or was interrupted in; and a lookup on another host, which
\* loads the index from storage, returns a LeaseInfo only when that resource
\* is on storage at the offset it returns.
C1_CommitSafety ==
    /\ \A recnum \in Records :
          LET record == read_record(storage, recnum)
          IN (/\ ~IsInvalidRecord(record)
              /\ record.resource /= <<>>
              /\ ~record.updating)
             => resources[lease_offset(recnum)] = <<LOCKSPACE, record.resource>>
    /\ \A r \in rd :
          r.status = "ok"
             => /\ r.value[4] \in LeaseOffsets
                /\ resources[r.value[4]] = <<LOCKSPACE, r.lease_id>>

\* Another host got a LeaseInfo while the instance was in the middle of an
\* operation, after an error or a crash.
C1_Witness ==
    /\ \E r \in rd : r.status = "ok"
    /\ pc /= Idle /\ pc.phase = 3
    /\ faults > 0

\* C2: any two distinct lease ids that have a record in the index of the
\* instance have different record numbers, the offsets of their LeaseInfo
\* differ by at least SLOT_SIZE, and no two records have the same lease
\* offset.
C2_Uniqueness ==
    /\ \A recnum \in {[lease_id \in LeaseIds |->
                          find_record(index, lease_id)]} :
          \A l1 \in LeaseIds, l2 \in LeaseIds :
             (l1 /= l2 /\ recnum[l1] /= -1 /\ recnum[l2] /= -1)
                => /\ recnum[l1] /= recnum[l2]
                   /\ \/ lease_offset(recnum[l1]) - lease_offset(recnum[l2])
                            >= SLOT_SIZE
                      \/ lease_offset(recnum[l2]) - lease_offset(recnum[l1])
                            >= SLOT_SIZE
    /\ \A l1 \in LeaseIds, l2 \in LeaseIds :
          (l1 /= l2 /\ added[l1] /= <<>> /\ added[l2] /= <<>>)
             => \/ added[l1][4] - added[l2][4] >= SLOT_SIZE
                \/ added[l2][4] - added[l1][4] >= SLOT_SIZE
    /\ \A r1 \in Records, r2 \in Records :
          r1 /= r2 => lease_offset(r1) /= lease_offset(r2)

\* Three leases are in use after a call failed.
C2_Witness ==
    /\ faults > 0
    /\ Cardinality({lease_id \in LeaseIds : added[lease_id] /= <<>>}) = 3

\* C3: for every lease id for which add succeeded and remove was not called
\* since, lookup on the instance and lookup on an instance constructed now
\* return the LeaseInfo that add returned, its offset is the lease offset of
\* the record that find_record gives, and that record is not updating.
C3_AddThenLookup ==
    \A lease_id \in LeaseIds :
        added[lease_id] /= <<>> =>
            \A recnum \in {find_record(index, lease_id)} :
               /\ lookup(index, lease_id) = Return(added[lease_id])
               /\ index /= storage
                     => lookup(VolumeIndex_init(storage), lease_id)
                           = Return(added[lease_id])
               /\ recnum /= -1
               /\ added[lease_id][4] = lease_offset(recnum)
               /\ read_record(index, recnum).updating = FALSE

\* A lease was added, and a later call failed and left the index of the
\* instance different from storage.
C3_Witness ==
    /\ \E lease_id \in LeaseIds : added[lease_id] /= <<>>
    /\ index /= storage
    /\ pc = Idle

\* The record recnum is in the updating state, with a resource, both on
\* storage and in the index of the instance, and it is the first record of
\* the index with that resource, the one lookup, add and remove find.
Stuck(file, buf, recnum) ==
    LET record == read_record(buf, recnum)
    IN /\ ~IsInvalidRecord(record)
       /\ record.updating
       /\ record.resource /= <<>>
       /\ record.offset = lease_offset(recnum)
       /\ read_record(file, recnum) = record
       /\ \A lower \in 0..(recnum - 1) :
             read_record(buf, lower).resource /= record.resource

C5_SingleBlockWrite ==
    [][(/\ calls'.write = calls.write + 1
        /\ result'.status \notin {"OSError", "ValueError"})
       => LET recnum == IF pc' /= Idle THEN pc'.recnum ELSE pc.recnum
              offset == VolumeIndex_record_offset(recnum)
          IN /\ read_record(VolumeIndex_init(storage'), recnum)
                   = read_record(index', recnum)
             /\ \A k \in 1..INDEX_SIZE :
                   (k <= offset \/ k > offset + RECORD_SIZE)
                      => storage'[k] = storage[k]]_vars

\* The call the instance starts in this step, from the state between calls.
CalledOp == IF pc' /= Idle THEN pc'.op ELSE result'.op

CalledId == IF pc' /= Idle THEN pc'.lease_id ELSE result'.lease_id

Called(op) ==
    /\ pc = Idle
    /\ result = NoResult
    /\ pc' /= Idle \/ result' /= NoResult
    /\ CalledOp = op

\* A step of the call op the instance runs: its first, or a later phase.
Step(op) ==
    \/ Called(op)
    \/ pc.op = op /\ calls' /= calls /\ calls' /= NoCalls

\* The free records of buf: those with an empty resource.
FreeRecords(buf) == RecordsOf(buf, BLANK_LEASE)

Min(S) == CHOOSE x \in S : \A y \in S : x <= y

RecordBytes(buf, recnum) ==
    Slice(buf, VolumeIndex_record_offset(recnum), RECORD_SIZE)

\* C6: add(L) for an id with no record in the index writes the lowest
\* numbered record with an empty resource and no other record of the index,
\* keeps that record number to the end of the call and returns its lease
\* offset; every step of an add leaves the lookup of every other lease id as
\* it was.
C6_FirstFreeSlot ==
    [][/\ (/\ Called("add")
           /\ RecordsOf(index, CalledId) = {}
           /\ FreeRecords(index) /= {})
          => LET recnum == Min(FreeRecords(index))
             IN /\ result'.status \in {"", "OSError"}
                /\ calls'.write = 1
                /\ pc' /= Idle
                      => /\ pc'.recnum = recnum
                         /\ read_record(index', recnum)
                               = Record(CalledId, lease_offset(recnum), TRUE)
                /\ \A other \in Records \ {recnum} :
                      RecordBytes(index', other) = RecordBytes(index, other)
       /\ (pc.op = "add" /\ pc'.op = "add") => pc'.recnum = pc.recnum
       /\ (pc.op = "add" /\ pc.phase = 3 /\ result'.status = "ok")
          => /\ result'.value = LeaseInfo(LOCKSPACE, pc.lease_id, PATH,
                                          lease_offset(pc.recnum))
             /\ find_record(index', pc.lease_id) = pc.recnum
       /\ Step("add")
          => LET lease_id == IF pc.op = "add" THEN pc.lease_id
                             ELSE CalledId
             IN \A other \in LeaseIds \ {lease_id} :
                   lookup(index', other) = lookup(index, other)]_vars

\* Three leases were added to records 0, 1, 2, the one in record 1 was
\* removed, and the add of a fourth lease returned the lease offset of
\* record 1.
C6_Witness ==
    /\ result.op = "add" /\ result.status = "ok"
    /\ result.value[4] = lease_offset(1)
    /\ \E A \in LeaseIds, C \in LeaseIds :
          /\ added[A] /= <<>> /\ added[A][4] = lease_offset(0)
          /\ added[C] /= <<>> /\ added[C][4] = lease_offset(2)
    /\ Cardinality({lease_id \in LeaseIds : added[lease_id] /= <<>>}) = 3

\* C7: when remove(L) returns, the record that held L is free in the index
\* and on storage, with an empty resource, the updating flag clear and the
\* offset field it had; lookup(L) raises NoSuchLease and leases() has no L;
\* and in every step of a remove each other lease id keeps its record
\* number and its entry in leases(), which holds its offset.
C7_RemoveEffectAndFrame ==
    [][/\ (pc.op = "remove" /\ pc.phase = 3 /\ result'.status = "ok")
          => LET free == Record(BLANK_LEASE,
                                read_record(index, pc.recnum).offset, FALSE)
             IN /\ read_record(index, pc.recnum).offset
                      = lease_offset(pc.recnum)
                /\ read_record(index', pc.recnum) = free
                /\ read_record(VolumeIndex_init(storage'), pc.recnum) = free
                /\ lookup(index', pc.lease_id) = Raise("NoSuchLease")
                /\ leases(index').status = "ok"
                /\ pc.lease_id \notin DOMAIN leases(index').value
       /\ (Step("remove") /\ (pc.op = "remove" \/ pc'.op = "remove"))
          => LET recnum == IF pc.op = "remove" THEN pc.recnum ELSE pc'.recnum
             IN read_record(index', recnum).offset
                   = read_record(index, recnum).offset
       /\ Step("remove")
          => LET lease_id == IF pc.op = "remove" THEN pc.lease_id
                             ELSE CalledId
             IN \A before \in {leases(index)}, after \in {leases(index')} :
                   /\ before.status = "ok" /\ after.status = "ok"
                   /\ \A other \in LeaseIds \ {lease_id} :
                         /\ find_record(index', other)
                               = find_record(index, other)
                         /\ (other \in DOMAIN before.value)
                               = (other \in DOMAIN after.value)
                         /\ other \in DOMAIN before.value
                               => after.value[other] = before.value[other]]_vars

\* C8: add(L) when the index has a record for L with the updating flag
\* clear raises LeaseExists, calls neither _write_record nor
\* sanlock.write_resource, and leaves storage, the index and the sanlock
\* resources as they were.
C8_ConflictingAdd ==
    [][(/\ Called("add")
        /\ \E recnum \in RecordsOf(index, CalledId) :
              ~read_record(index, recnum).updating)
       => /\ result' = Result("add", CalledId, Raise("LeaseExists"))
          /\ pc' = Idle
          /\ calls = NoCalls /\ calls' = NoCalls
          /\ UNCHANGED <<storage, index, resources>>]_vars

\* add raised LeaseExists for a lease that add had returned.
C8_Witness ==
    /\ result.op = "add" /\ result.status = "LeaseExists"
    /\ added[result.lease_id] /= <<>>
    /\ calls = NoCalls

\* C9: lookup(L) and remove(L) for an id that no record of the index holds
\* raise NoSuchLease, and the call writes nothing, does not call
\* sanlock.write_resource and leaves storage, the index and the sanlock
\* resources as they were.
C9_MissingLease ==
    [][(/\ Called("lookup") \/ Called("remove")
        /\ RecordsOf(index, CalledId) = {})
       => /\ result' = Result(CalledOp, CalledId, Raise("NoSuchLease"))
          /\ pc' = Idle
          /\ calls = NoCalls /\ calls' = NoCalls
          /\ UNCHANGED <<storage, index, resources>>]_vars

\* remove raised NoSuchLease on an index that holds other leases.
C9_Witness ==
    /\ result.op = "remove" /\ result.status = "NoSuchLease"
    /\ \E lease_id \in LeaseIds : added[lease_id] /= <<>>
    /\ calls = NoCalls

\* C10: add(L) for an id with no record in the index never raises NoSpace
\* while a record is free, it allocates a free record and, unless an I/O or
\* sanlock error is injected, goes through its three phases and returns
\* USER_RESOURCE_BASE + recnum * SLOT_SIZE, for the last record too; when no
\* record is free it raises NoSpace and storage, the index and the sanlock
\* resources stay as they were.
C10_CapacityBoundary ==
    [][/\ (Called("add") /\ RecordsOf(index, CalledId) = {})
          => IF FreeRecords(index) /= {}
             THEN /\ result'.status /= "NoSpace"
                  /\ faults' = faults
                        => /\ pc' /= Idle
                           /\ pc'.recnum \in FreeRecords(index)
                           /\ pc'.phase = 2
             ELSE /\ result' = Result("add", CalledId, Raise("NoSpace"))
                  /\ pc' = Idle
                  /\ calls = NoCalls /\ calls' = NoCalls
                  /\ UNCHANGED <<storage, index, resources>>
       /\ (pc.op = "add" /\ Step("add") /\ faults' = faults)
          => /\ pc.recnum \in Records
             /\ IF pc.phase = 2 THEN pc' = [pc EXCEPT !.phase = 3]
                ELSE /\ pc' = Idle
                     /\ result'.status = "ok"
                     /\ result'.value[4]
                           = USER_RESOURCE_BASE + pc.recnum * SLOT_SIZE]_vars

\* add raised NoSpace after an add had returned the offset of the last
\* record.
C10_Witness ==
    /\ result.op = "add" /\ result.status = "NoSpace"
    /\ \E lease_id \in LeaseIds :
          /\ added[lease_id] /= <<>>
          /\ added[lease_id][4]
                = USER_RESOURCE_BASE + (MAX_RECORDS - 1) * SLOT_SIZE

\* C12: in every state that add and remove calls lead to, leases() on the
\* instance has one entry for each record of the index with a resource, and
\* no other: its key is the resource of the record, its offset the lease
\* offset of the record number, its flag the updating flag of the record.
C12_Listing ==
    \A listing \in {leases(index)} :
       /\ listing.status = "ok"
       /\ BLANK_LEASE \notin DOMAIN listing.value
       /\ \A recnum \in Records :
             \A record \in {read_record(index, recnum)} :
                record.resource /= BLANK_LEASE
                   => /\ record.resource \in DOMAIN listing.value
                      /\ listing.value[record.resource]
                            = [offset |-> lease_offset(recnum),
                               updating |-> record.updating]
       /\ Cardinality(DOMAIN listing.value)
             = Cardinality({recnum \in Records :
                               read_record(index, recnum).resource
                                  /= BLANK_LEASE})

----------------------------------------------------------------------------
(* format_index on volumes with prior contents *)

\* A flush of the whole index that fails leaves a prefix of whole blocks
\* written (VolumeIndex.dump: "if the operation fail, some blocks may not be
\* written").
IndexBlocks == INDEX_SIZE \div BLOCK_SIZE

\* format_index that fails in VolumeIndex.dump once blocks blocks were
\* written.
format_index_partial(file, blocks) ==
    LET buf == FormatRecords(VolumeIndex_init(file), 0)
    IN WriteAt(file, INDEX_BASE - INDEX_BASE,
               Slice(buf, 0, blocks * BLOCK_SIZE))

\* What 64 bytes of a volume can hold before it is formatted: zeros of a new
\* file, garbage (bytes 88, "X"), a record in use, a record in the updating state.
PriorRecords ==
    {[k \in 1..RECORD_SIZE |-> NUL],
     [k \in 1..RECORD_SIZE |-> 88],
     Record_bytes(Record(<<97>>, lease_offset(1), FALSE)),
     Record_bytes(Record(<<98>>, lease_offset(0), TRUE))}

PriorMetadata ==
    {[k \in 1..METADATA_SIZE |-> NUL], [k \in 1..METADATA_SIZE |-> 88]}

RECURSIVE PriorRecordArea(_, _)
PriorRecordArea(pattern, recnum) ==
    IF recnum = MAX_RECORDS THEN <<>>
    ELSE pattern[(recnum % 3) + 1] \o PriorRecordArea(pattern, recnum + 1)

\* The index slots format_index is run on.
PriorVolumes ==
    {metadata \o PriorRecordArea(pattern, 0) :
        metadata \in PriorMetadata,
        pattern \in PriorRecords \X PriorRecords \X PriorRecords}

\* format_index is run at most this many times on a volume.
MaxFormats == 2

FormatInit ==
    /\ storage \in PriorVolumes
    /\ resources = [offset \in LeaseOffsets |-> NoResource]
    /\ index = VolumeIndex_init(storage)
    /\ pc = Idle
    /\ result = NoResult
    /\ rd = {}
    /\ calls = NoCalls
    /\ faults = 0
    /\ added = [lease_id \in LeaseIds |-> <<>>]
    /\ db = NoDb
    /\ other_index = <<>>

\* format_index(lockspace, file) runs to the end, and a LeasesVolume is
\* constructed on the volume.
format_index_ok ==
    /\ calls.write < MaxFormats
    /\ storage' = format_index(storage)
    /\ index' = VolumeIndex_init(storage')
    /\ result' = Result("format_index", <<>>, Return(<<>>))
    /\ calls' = [calls EXCEPT !.write = @ + 1]
    /\ UNCHANGED <<resources, pc, rd, faults, added, db, other_index>>

\* format_index(lockspace, file) raises OSError from VolumeIndex.dump.
format_index_fail ==
    /\ calls.write < MaxFormats
    /\ faults < MaxFaults
    /\ \E blocks \in 0..IndexBlocks :
          storage' = format_index_partial(storage, blocks)
    /\ index' = VolumeIndex_init(storage')
    /\ result' = Result("format_index", <<>>, Raise("OSError"))
    /\ calls' = [calls EXCEPT !.write = @ + 1]
    /\ faults' = faults + 1
    /\ UNCHANGED <<resources, pc, rd, added, db, other_index>>

FormatNext ==
    \/ format_index_ok
    \/ format_index_fail

FormatSpec == FormatInit /\ [][FormatNext]_vars

\* C11: after format_index returns, on a volume with any prior contents,
\* every record on storage reads as an empty resource, the lease offset of
\* its record number and the updating flag clear, leases() on a LeasesVolume
\* constructed then is empty, and a format_index that returns after that
\* leaves every byte of the index slot as it is.
C11_FormatResult ==
    /\ [](result.status = "ok"
            => /\ \A recnum \in Records :
                     read_record(VolumeIndex_init(storage), recnum)
                        = Record(BLANK_LEASE, lease_offset(recnum), FALSE)
               /\ leases(index).status = "ok"
               /\ DOMAIN leases(index).value = {})
    /\ [][(result.status = "ok" /\ result'.status = "ok")
             => storage' = storage]_vars

\* format_index returned twice on a volume that held garbage and a record
\* in use.
C11_Witness ==
    /\ result.status = "ok"
    /\ calls.write = 2
    /\ storage[1] = 88

\* C18: when format_index raises, the metadata block of the index slot on
\* storage has the updating flag set.
C18_FailedFormatMarked ==
    (result.op = "format_index" /\ result.status = "OSError")
       => \E k \in 1..METADATA_SIZE : storage[k] = FLAG_UPDATING

----------------------------------------------------------------------------
(* VolumeIndex.find_record on indexes with given records *)

\* The resources the records of an index hold: none, "a", "b", "ab".
FindResources == {BLANK_LEASE, <<97>>, <<98>>, <<97, 98>>}

RECURSIVE RecordArea(_, _, _)
RecordArea(held, updating, recnum) ==
    IF recnum = MAX_RECORDS THEN <<>>
    ELSE Record_bytes(Record(held[(recnum % 3) + 1],
                             lease_offset(recnum),
                             updating /\ held[(recnum % 3) + 1] /= <<>>))
         \o RecordArea(held, updating, recnum + 1)

\* Index slots that add and remove can produce: a metadata block of zero
\* bytes and records that are free, in use or updating.
FindVolumes ==
    {[k \in 1..METADATA_SIZE |-> NUL] \o RecordArea(held, updating, 0) :
        held \in FindResources \X FindResources \X FindResources,
        updating \in BOOLEAN}

\* ASCII lease ids looked up: "a", "b", "ab", "c", and ids that hold the
\* last bytes of a record: "\n", "-\n", "\na".
FindIds == {<<97>>, <<98>>, <<97, 98>>, <<99>>, <<10>>, <<45, 10>>, <<10, 97>>}

FindInit ==
    /\ storage \in FindVolumes
    /\ resources = [offset \in LeaseOffsets |-> NoResource]
    /\ index = VolumeIndex_init(storage)
    /\ pc = Idle
    /\ result = NoResult
    /\ rd = {}
    /\ calls = NoCalls
    /\ faults = 0
    /\ added = [lease_id \in LeaseIds |-> <<>>]
    /\ db = NoDb
    /\ other_index = <<>>

\* VolumeIndex.find_record(lease_id)
find_record_call(lease_id) ==
    /\ result' = Result("find_record", lease_id,
                        Return(find_record(index, lease_id)))
    /\ UNCHANGED <<storage, resources, index, pc, rd, calls, faults, added, db,
                   other_index>>

\* The texts written over the offset field of record recnum: zero, and the
\* lease offset of the next record.
OffsetTexts(recnum) ==
    {FormatOffset(0), FormatOffset(lease_offset((recnum + 1) % MAX_RECORDS))}

\* The offset field of a record on storage is overwritten with another
\* decimal text, and a LeasesVolume is constructed on the volume.
overwrite_offset_field(recnum, text) ==
    /\ faults < MaxFaults
    /\ faults' = faults + 1
    /\ storage' = WriteAt(storage,
                          VolumeIndex_record_offset(recnum) + RESOURCE_LEN + 1,
                          text)
    /\ index' = VolumeIndex_init(storage')
    /\ result' = NoResult
    /\ UNCHANGED <<resources, pc, rd, calls, added, db, other_index>>

\* The offsets in a record of the two pad bytes ("x" of RECORD_STRUCT) and of
\* the last byte.
SeparatorOffsets ==
    {RESOURCE_LEN, RESOURCE_LEN + 1 + OFFSET_LEN, RECORD_SIZE - 1}

\* One separator byte or the last byte of a record on storage is overwritten
\* with "X", and a LeasesVolume is constructed on the volume.
overwrite_separator(recnum, offset) ==
    /\ faults < MaxFaults
    /\ faults' = faults + 1
    /\ storage' = WriteAt(storage, VolumeIndex_record_offset(recnum) + offset,
                          <<88>>)
    /\ index' = VolumeIndex_init(storage')
    /\ result' = NoResult
    /\ UNCHANGED <<resources, pc, rd, calls, added, db, other_index>>

FindNext ==
    \/ \E lease_id \in FindIds : find_record_call(lease_id)
    \/ \E recnum \in 0..(MAX_RECORDS - 1) :
          \E text \in OffsetTexts(recnum) :
             overwrite_offset_field(recnum, text)
    \/ \E recnum \in 0..(MAX_RECORDS - 1) :
          \E offset \in SeparatorOffsets : overwrite_separator(recnum, offset)

FindSpec == FindInit /\ [][FindNext]_vars

\* C13: when find_record(lease_id) returns a record number, the resource of
\* that record is lease_id: the lookup prefix was found at the first byte of
\* the record and not at another offset.
C13_AlignedLookup ==
    (result.op = "find_record" /\ result.value /= -1)
       => /\ result.value \in Records
          /\ read_record(index, result.value).resource = result.lease_id

\* A separator byte of data is not a zero byte, or its last byte is not a
\* newline.
BadSeparators(data) ==
    \/ data[RESOURCE_LEN + 1] /= NUL
    \/ data[RESOURCE_LEN + 1 + OFFSET_LEN + 1] /= NUL
    \/ data[RECORD_SIZE] /= RECORD_TERM

\* C16: a record of the index in which a separator byte is not a zero byte
\* or the last byte is not a newline decodes to InvalidRecord, and lookup of
\* the lease id its resource field holds raises InvalidRecord.
C16_FormatRigidity ==
    \A recnum \in Records :
       \A data \in {RecordBytes(index, recnum)} :
          BadSeparators(data)
             => /\ IsInvalidRecord(read_record(index, recnum))
                /\ \A lease_id \in {RStripNul(Slice(data, 0, RESOURCE_LEN))} :
                      lease_id /= BLANK_LEASE
                         => lookup(index, lease_id) = Raise("InvalidRecord")

\* The results of the operations of LeasesVolume on buf for lease_id.
Results(buf, lease_id) ==
    <<lookup(buf, lease_id), add_find(buf, lease_id),
      remove_find(buf, lease_id), leases(buf)>>

\* C17: overwriting the offset field of a record with another decimal text
\* changes the result of no operation: lookup, the checks and the allocation
\* of add, the record remove finds, and leases() give for every lease id
\* what they gave before, and every offset they give is the lease offset of
\* the record number.
C17_PositionalAddressing ==
    /\ [][(storage' /= storage
            /\ \A recnum \in Records :
                  LET data == RecordBytes(index, recnum)
                      changed == RecordBytes(index', recnum)
                  IN /\ Slice(changed, 0, RESOURCE_LEN + 1)
                           = Slice(data, 0, RESOURCE_LEN + 1)
                     /\ Slice(changed, RESOURCE_LEN + 1 + OFFSET_LEN,
                              RECORD_SIZE - RESOURCE_LEN - 1 - OFFSET_LEN)
                           = Slice(data, RESOURCE_LEN + 1 + OFFSET_LEN,
                                   RECORD_SIZE - RESOURCE_LEN - 1 - OFFSET_LEN))
           => \A lease_id \in LeaseIds :
                 Results(index', lease_id) = Results(index, lease_id)]_vars
    /\ [](\A recnum \in Records :
             \A record \in {read_record(index, recnum)} :
                (~IsInvalidRecord(record) /\ record.resource \in LeaseIds)
                   => /\ leases(index).status = "ok"
                         => leases(index).value[record.resource].offset
                               \in LeaseOffsets
                      /\ lookup(index, record.resource).status = "ok"
                            => lookup(index, record.resource).value[4]
                                  \in LeaseOffsets)

\* The offset field of a record in use holds the lease offset of another
\* record, and lookup gives the lease offset of the record number.
C17_Witness ==
    \E recnum \in Records :
       \A record \in {read_record(index, recnum)} :
          /\ ~IsInvalidRecord(record)
          /\ record.resource \in LeaseIds
          /\ record.offset /= lease_offset(recnum)
          /\ record.offset \in LeaseOffsets
          /\ lookup(index, record.resource)
                = Return(LeaseInfo(LOCKSPACE, record.resource, PATH,
                                   lease_offset(recnum)))

-----------------------------------------------------------------------------
(* Record.bytes and Record.frombytes on given records *)

\* "a" repeated n times.
Repeat(n) == [k \in 1..n |-> 97]

\* Resources of the records encoded: empty, short, with a zero byte inside,
\* with zero bytes at the end, of 47 and 48 bytes, and of 49 bytes.
CodecResources ==
    {<<>>, <<97>>, <<97, 98>>, <<97, 0, 98>>, <<97, 0>>, <<0>>,
     Repeat(RESOURCE_LEN - 1), Repeat(RESOURCE_LEN),
     Repeat(RESOURCE_LEN) \o <<98>>}

\* Offsets of the records encoded: the lease offsets and other values.
CodecOffsets == {0, 1, 2147483647} \cup LeaseOffsets

CodecInit ==
    /\ storage = <<>>
    /\ resources = <<>>
    /\ index = <<>>
    /\ pc = Idle
    /\ result = NoResult
    /\ rd = {}
    /\ calls = NoCalls
    /\ faults = 0
    /\ added = {}
    /\ db = NoDb
    /\ other_index = <<>>

\* data = Record(resource, offset, updating).bytes()
Record_bytes_call(resource, offset, updating) ==
    /\ result = NoResult
    /\ result' = Result("bytes", resource,
                        Return(<<Record(resource, offset, updating),
                                 Record_bytes(Record(resource, offset,
                                                     updating))>>))
    /\ UNCHANGED <<storage, resources, index, pc, rd, calls, faults, added, db,
                   other_index>>

\* Record.frombytes(data)
Record_frombytes_call ==
    /\ result.op = "bytes"
    /\ result.status = "ok"
    /\ result' = Result("frombytes", result.lease_id,
                        Return(Append(result.value,
                                      Record_frombytes(result.value[2]))))
    /\ UNCHANGED <<storage, resources, index, pc, rd, calls, faults, added, db,
                   other_index>>

CodecNext ==
    \/ \E resource \in CodecResources, offset \in CodecOffsets,
          updating \in BOOLEAN :
          Record_bytes_call(resource, offset, updating)
    \/ Record_frombytes_call

CodecSpec == CodecInit /\ [][CodecNext]_vars

\* MAX_RECORDS and BLOCK_SIZE of the source.
SOURCE_MAX_RECORDS == 4000
SOURCE_BLOCK_SIZE == 512

\* The decimal digits of n * k, for n given by its decimal digits and
\* k <= 2^20, one digit at a time: the lease offsets of the source do not
\* fit the integers of the model checker.
RECURSIVE MulDigits(_, _, _)
MulDigits(digits, k, carry) ==
    IF Len(digits) = 0
    THEN IF carry = 0 THEN <<>> ELSE DecimalDigits(carry)
    ELSE LET n == (digits[Len(digits)] - ZERO_DIGIT) * k + carry
         IN Append(MulDigits(SubSeq(digits, 1, Len(digits) - 1), k,
                             n \div 10),
                   ZERO_DIGIT + (n % 10))

\* The decimal digits of lease_offset(recnum) with the SLOT_SIZE of the
\* source: (3 + recnum) * 2048 * BLOCK_SIZE.
SourceOffsetDigits(recnum) ==
    MulDigits(DecimalDigits(3 + recnum), 2048 * SOURCE_BLOCK_SIZE, 0)

\* C14 as stated: decoding the bytes of a record with a resource of at most
\* 48 ASCII bytes gives the resource, offset and flag of the record.
C14_RoundTripAnyAscii ==
    (result.op = "frombytes" /\ Len(result.value[1].resource) <= RESOURCE_LEN)
       => result.value[3] = result.value[1]

\* C14: decoding the bytes of a record whose resource has at most 48 ASCII
\* bytes and does not end with a zero byte gives the resource, offset and
\* flag of the record; the offset field of the bytes has 11 digits; every
\* lease offset the program generates, with the sizes of the model and with
\* those of the source, has at most 11 digits.
C14_RoundTrip ==
    /\ (/\ result.op = "frombytes"
        /\ Len(result.value[1].resource) <= RESOURCE_LEN
        /\ RStripNul(result.value[1].resource) = result.value[1].resource)
          => /\ result.value[3] = result.value[1]
             /\ Len(result.value[2]) = RECORD_SIZE
             /\ Slice(result.value[2], RESOURCE_LEN + 1, OFFSET_LEN)
                   = FormatOffset(result.value[1].offset)
    /\ \A recnum \in Records :
          Len(DecimalDigits(lease_offset(recnum))) <= OFFSET_LEN
    /\ \A recnum \in 0..(SOURCE_MAX_RECORDS - 1) :
          Len(SourceOffsetDigits(recnum)) <= OFFSET_LEN

\* A record with a resource of 48 bytes, the updating flag and the last
\* lease offset was encoded and decoded.
C14_Witness ==
    /\ result.op = "frombytes"
    /\ result.value[1] = Record(Repeat(RESOURCE_LEN),
                                lease_offset(MAX_RECORDS - 1), TRUE)
    /\ result.value[3] = result.value[1]

\* C15: Record.bytes of a record whose resource has more than 48 bytes
\* raises InvalidRecord.
C15_ResourceTooLong ==
    (result.op = "bytes" /\ Len(result.lease_id) > RESOURCE_LEN)
       => result.status = "InvalidRecord"

-----------------------------------------------------------------------------
(* vdsm-tool rebuild-xleases *)

\* rebuild_xleases: opens the volume and calls xlease.rebuild_index, a name
\* the xlease module does not define; the call raises AttributeError before
\* anything is read or written, and the volume is closed.
rebuild_xleases ==
    /\ pc = Idle
    /\ Ready
    /\ result' = Result("rebuild_xleases", <<>>, Raise("AttributeError"))
    /\ UNCHANGED <<storage, resources, index, pc, rd, calls, faults, added, db,
                   other_index>>

RebuildNext ==
    \/ Next
    \/ rebuild_xleases

RebuildSpec == Init /\ [][RebuildNext]_vars

\* C19: after rebuild-xleases every record of the index on storage decodes
\* with the updating flag clear, holds resource R when the resource sanlock
\* has at the lease offset of the record is (lockspace, R), and is free
\* when sanlock has no resource of the lockspace there.
C19_Rebuild ==
    result.op = "rebuild_xleases"
       => \A recnum \in Records :
             \A record \in {read_record(storage, recnum)} :
                /\ ~IsInvalidRecord(record)
                /\ ~record.updating
                /\ record.resource
                      = IF resources[lease_offset(recnum)][1] = LOCKSPACE
                        THEN resources[lease_offset(recnum)][2]
                        ELSE BLANK_LEASE

-----------------------------------------------------------------------------
(* managedvolumedb: the shared environment of _DB, in one thread *)

\* Handles that the callers open in one run.
MaxHandles == 2

\* How lmdb.open and the calls on the environment can end.
LmdbOutcomes == IF faults < MaxFaults THEN {"ok", "lmdb.Error"} ELSE {"ok"}

\* _DB._open_env(create): lmdb.open raises when it fails (outcome) and when
\* the database files do not exist and create is false; -1 users stand for
\* the exception, which leaves the class attributes as they were.
_open_env(d, create, outcome) ==
    IF d.env = "closed"
    THEN IF outcome /= "ok" \/ (~create /\ ~d.file)
         THEN [d EXCEPT !.users = -1]
         ELSE [d EXCEPT !.env = "open", !.file = TRUE, !.users = @ + 1]
    ELSE [d EXCEPT !.users = @ + 1]

\* _DB._close_env that closes the environment whoever else uses it.
_close_env_always(d) ==
    IF d.users = 0 THEN [d EXCEPT !.users = -1]
    ELSE [d EXCEPT !.users = @ - 1, !.env = "closed"]

\* _DB._close_env: -1 users stand for RuntimeError.
_close_env(d) ==
    IF d.users = 0 THEN [d EXCEPT !.users = -1]
    ELSE IF d.users - 1 = 0
         THEN [d EXCEPT !.users = 0, !.env = "closed"]
         ELSE [d EXCEPT !.users = @ - 1]

\* self._env that is always the attribute of the class.
handle_env_class(d, h) == d.env

\* self._env of handle h: the attribute of the instance once close set it,
\* the attribute of the class until then.
handle_env(d, h) == IF d.handles[h] = "closed" THEN "closed" ELSE d.env

\* _DB.close that does not mark the instance as closed.
_DB_close_unmarked(d, h) ==
    IF handle_env(d, h) /= "closed" THEN _close_env(d) ELSE d

\* _DB.close
_DB_close(d, h) ==
    IF handle_env(d, h) /= "closed"
    THEN _close_env([d EXCEPT !.handles[h] = "closed"])
    ELSE d

DbInit ==
    /\ storage = <<>>
    /\ resources = <<>>
    /\ index = <<>>
    /\ pc = Idle
    /\ result = NoResult
    /\ rd = {}
    /\ calls = NoCalls
    /\ faults = 0
    /\ added = {}
    /\ db = NoDb
    /\ other_index = <<>>

\* The call raised an error of lmdb.
DbFault(outcome) ==
    /\ faults' = IF outcome = "ok" THEN faults ELSE faults + 1
    /\ UNCHANGED <<storage, resources, index, pc, rd, calls, added,
                   other_index>>

\* managedvolumedb.open(): _DB() calls _open_env(create=False) in __init__;
\* the caller gets the handle when it returns.
open_call ==
    /\ Len(db.handles) < MaxHandles
    /\ \E outcome \in LmdbOutcomes :
          LET opened == _open_env(db, FALSE, outcome)
              h == Len(db.handles) + 1
          IN /\ IF opened.users = -1
                THEN /\ db' = db
                     /\ result' = Result("open", <<>>, Raise("lmdb.Error"))
                ELSE /\ db' = [opened EXCEPT
                                  !.handles = Append(@, "unset"),
                                  !.live = @ \cup {h},
                                  !.reopened =
                                      @ \/ (db.env = "closed"
                                            /\ DOMAIN db.stored /= {})]
                     /\ result' = Result("open", <<>>, Return(<<h>>))
             /\ DbFault(IF opened.users = -1 /\ (db.file \/ db.env = "open")
                        THEN outcome ELSE "ok")

\* handle.close(), on a handle that was closed or not; the result records
\* the handle and whether this was its first close.
close_call(h) ==
    /\ h \in 1..Len(db.handles)
    /\ LET closed == _DB_close(db, h)
       IN IF closed.users = -1
          THEN /\ db' = [db EXCEPT !.handles[h] = "closed", !.live = @ \ {h}]
               /\ result' = Result("close", <<>>, Raise("RuntimeError"))
          ELSE /\ db' = [closed EXCEPT !.live = @ \ {h}]
               /\ result' = Result("close", <<>>,
                                   Return(<<h, h \in db.live>>))
    /\ DbFault("ok")

VERSION == 1

\* Ids of volumes, connection infos, and the multipath ids given to
\* update_volume: none ("") or "m1".
VolIds == {"v1", "v2"}
ConnInfos == {"c1", "c2"}
MultipathIds == {"", "m1"}

\* dict with key set to value, and without key
Put(dict, key, value) ==
    [k \in DOMAIN dict \cup {key} |-> IF k = key THEN value ELSE dict[k]]
Delete(dict, key) == [k \in DOMAIN dict \ {key} |-> dict[k]]

\* json.dumps(info).encode() and json.loads(data): the data is the members
\* of the object, each a name and a value.
json_dumps(info) == {<<k, info[k]>> : k \in DOMAIN info}
json_loads(data) ==
    [k \in {member[1] : member \in data} |->
        (CHOOSE member \in data : member[1] = k)[2]]

\* env.open_db(name): create is true by default, the sub-database is
\* created in a transaction of its own when the environment has none.
open_db(d, name) == [d EXCEPT !.dbs = @ \cup {name}]

\* What a method of a handle leaves in the database, and how it ends.
Outcome(d, outcome) == [db |-> d, outcome |-> outcome]

\* _DB.get_volume
get_volume(d, h, vol_id) ==
    IF handle_env(d, h) = "closed" THEN Outcome(d, Raise("Closed"))
    ELSE LET volumes == open_db(d, "volumes")
         IN IF vol_id \notin DOMAIN volumes.volumes
            THEN Outcome(volumes, Raise("NotFound"))
            ELSE Outcome(volumes,
                         Return(json_loads(volumes.volumes[vol_id])))

\* _DB.add_volume in a transaction that is not committed.
add_volume_uncommitted(d, h, vol_id, connection_info) ==
    IF handle_env(d, h) = "closed" THEN Outcome(d, Raise("Closed"))
    ELSE LET volumes == open_db(d, "volumes")
         IN IF vol_id \in DOMAIN volumes.volumes
            THEN Outcome(volumes,
                         [status |-> "VolumeAlreadyExists",
                          value |-> json_loads(volumes.volumes[vol_id])])
            ELSE Outcome(volumes, Return(<<>>))

\* _DB.add_volume that does not look for the volume.
add_volume_overwrite(d, h, vol_id, connection_info) ==
    IF handle_env(d, h) = "closed" THEN Outcome(d, Raise("Closed"))
    ELSE Outcome(
            [open_db(d, "volumes") EXCEPT !.volumes =
                Put(@, vol_id,
                    json_dumps([connection_info |-> connection_info]))],
            Return(<<>>))

\* _DB.add_volume: the exception leaves the transaction without a commit.
add_volume(d, h, vol_id, connection_info) ==
    IF handle_env(d, h) = "closed" THEN Outcome(d, Raise("Closed"))
    ELSE LET volumes == open_db(d, "volumes")
         IN IF vol_id \in DOMAIN volumes.volumes
            THEN Outcome(volumes,
                         [status |-> "VolumeAlreadyExists",
                          value |-> json_loads(volumes.volumes[vol_id])])
            ELSE Outcome(
                    [volumes EXCEPT !.volumes =
                        Put(@, vol_id,
                            json_dumps([connection_info |->
                                            connection_info]))],
                    Return(<<>>))

\* _DB.update_volume that does not write the multipaths sub-database.
update_volume_no_index(d, h, vol_id, path, attachment, multipath_id) ==
    IF handle_env(d, h) = "closed" THEN Outcome(d, Raise("Closed"))
    ELSE LET multipaths == open_db(open_db(d, "volumes"), "multipaths")
         IN IF vol_id \notin DOMAIN multipaths.volumes
            THEN Outcome(multipaths, Raise("NotFound"))
            ELSE LET vol_info == json_loads(multipaths.volumes[vol_id])
                     updated == Put(Put(vol_info, "path", path),
                                    "attachment", attachment)
                     named == IF multipath_id /= ""
                              THEN Put(updated, "multipath_id", multipath_id)
                              ELSE updated
                 IN Outcome(
                       [multipaths EXCEPT
                           !.volumes = Put(@, vol_id, json_dumps(named))],
                       Return(<<>>))

\* _DB.update_volume
update_volume(d, h, vol_id, path, attachment, multipath_id) ==
    IF handle_env(d, h) = "closed" THEN Outcome(d, Raise("Closed"))
    ELSE LET multipaths == open_db(open_db(d, "volumes"), "multipaths")
         IN IF vol_id \notin DOMAIN multipaths.volumes
            THEN Outcome(multipaths, Raise("NotFound"))
            ELSE LET vol_info == json_loads(multipaths.volumes[vol_id])
                     updated == Put(Put(vol_info, "path", path),
                                    "attachment", attachment)
                     named == IF multipath_id /= ""
                              THEN Put(updated, "multipath_id", multipath_id)
                              ELSE updated
                 IN Outcome(
                       [multipaths EXCEPT
                           !.volumes = Put(@, vol_id, json_dumps(named)),
                           !.multipaths =
                               IF multipath_id /= ""
                               THEN Put(@, multipath_id, vol_id) ELSE @],
                       Return(<<>>))

\* _DB.remove_volume: the key of the multipath id is deleted from the
\* volumes sub-database (db=volumes).
remove_volume(d, h, vol_id) ==
    IF handle_env(d, h) = "closed" THEN Outcome(d, Raise("Closed"))
    ELSE LET multipaths == open_db(open_db(d, "volumes"), "multipaths")
         IN IF vol_id \notin DOMAIN multipaths.volumes
            THEN Outcome(multipaths, Raise("NotFound"))
            ELSE LET vol_info == json_loads(multipaths.volumes[vol_id])
                     multipath_id ==
                         IF "multipath_id" \in DOMAIN vol_info
                         THEN vol_info["multipath_id"] ELSE ""
                     deleted == IF multipath_id /= ""
                                THEN Delete(multipaths.volumes, multipath_id)
                                ELSE multipaths.volumes
                 IN Outcome([multipaths EXCEPT
                                !.volumes = Delete(deleted, vol_id)],
                            Return(<<>>))

\* b"%010d" % version
version_key(version) ==
    LET d == DecimalDigits(version)
    IN [k \in 1..(10 - Len(d)) |-> ZERO_DIGIT] \o d

\* cursor.last(): the greatest key; the keys have ten digits.
last_key(versions) ==
    CHOOSE key \in DOMAIN versions :
        \A other \in DOMAIN versions :
           ParseDigits(other) <= ParseDigits(key)

\* _DB.version_info that returns nothing when there is no version.
version_info_unchecked(d, h) ==
    IF handle_env(d, h) = "closed" THEN Outcome(d, Raise("Closed"))
    ELSE LET versions == open_db(d, "versions")
         IN IF DOMAIN versions.versions = {}
            THEN Outcome(versions, Return(<<>>))
            ELSE Outcome(
                    versions,
                    Return(json_loads(
                              versions.versions[
                                  last_key(versions.versions)])))

\* _DB.version_info
version_info(d, h) ==
    IF handle_env(d, h) = "closed" THEN Outcome(d, Raise("Closed"))
    ELSE LET versions == open_db(d, "versions")
         IN IF DOMAIN versions.versions = {}
            THEN Outcome(versions, Raise("InvalidDatabase"))
            ELSE Outcome(
                    versions,
                    Return(json_loads(
                              versions.versions[
                                  last_key(versions.versions)])))

\* _DB.owns_multipath
owns_multipath(d, h, multipath_id) ==
    IF handle_env(d, h) = "closed" THEN Outcome(d, Raise("Closed"))
    ELSE LET multipaths == open_db(d, "multipaths")
         IN Outcome(multipaths,
                    Return(multipath_id \in DOMAIN multipaths.multipaths))

\* The first steps of the body of _DB.create: the three sub-databases are
\* opened, each created in a transaction of its own, then the version is
\* written in a write transaction.
create_steps(d, steps) ==
    LET volumes == IF steps >= 1 THEN open_db(d, "volumes") ELSE d
        multipaths == IF steps >= 2 THEN open_db(volumes, "multipaths")
                      ELSE volumes
        versions == IF steps >= 3 THEN open_db(multipaths, "versions")
                    ELSE multipaths
    IN IF steps >= 4
       THEN [versions EXCEPT !.versions =
                Put(@, version_key(VERSION),
                    json_dumps([version |-> VERSION,
                                description |-> "Initial version",
                                updated |-> "utcnow"]))]
       ELSE versions

\* The steps of the body of _DB.create that are done when it ends: all
\* four, or fewer when one raises.
CreateSteps == IF faults < MaxFaults THEN 0..4 ELSE {4}

\* create_db(): _DB.create opens the environment with create=True, runs
\* its body, any step of which can raise, and closes the environment in
\* the finally clause.
create_db_call ==
    \E outcome \in LmdbOutcomes, steps \in CreateSteps :
       LET opened == _open_env(db, TRUE, outcome)
       IN /\ IF opened.users = -1
             THEN /\ db' = db
                  /\ result' = Result("create_db", <<>>, Raise("lmdb.Error"))
                  /\ DbFault(outcome)
             ELSE LET created == create_steps(opened, steps)
                      closed == _close_env(created)
                  IN /\ db' = [IF closed.users = -1 THEN created ELSE closed
                                  EXCEPT !.creates =
                                      IF steps = 4 /\ @ < 2 THEN @ + 1 ELSE @]
                     /\ result' =
                           Result("create_db", <<>>,
                                  IF closed.users = -1
                                  THEN Raise("RuntimeError")
                                  ELSE IF steps < 4
                                  THEN Raise("lmdb.Error")
                                  ELSE Return(<<>>))
                     /\ DbFault(IF steps < 4 THEN "lmdb.Error" ELSE "ok")

\* version_info(): opens a handle, reads the version and closes the handle
\* on the way out (contextlib.closing).
version_info_call ==
    \E outcome \in LmdbOutcomes :
       LET opened == _open_env(db, FALSE, outcome)
           h == Len(db.handles) + 1
       IN /\ IF opened.users = -1
             THEN /\ db' = db
                  /\ result' = Result("version_info", <<>>,
                                      Raise("lmdb.Error"))
             ELSE LET read == version_info(
                                 [opened EXCEPT
                                     !.handles = Append(@, "unset")], h)
                      closed == _DB_close(read.db, h)
                  IN /\ db' = [IF closed.users = -1 THEN read.db ELSE closed
                                  EXCEPT !.handles = db.handles]
                     /\ result' =
                           Result("version_info", <<>>,
                                  IF closed.users = -1
                                  THEN Raise("RuntimeError")
                                  ELSE read.outcome)
          /\ DbFault(IF opened.users = -1 /\ (db.file \/ db.env = "open")
                     THEN outcome ELSE "ok")

\* A method of handle h was called with args and ended as done says.
HandleCall(name, h, args, done) ==
    /\ h \in 1..Len(db.handles)
    /\ result' = Result(name, <<h>> \o args, done.outcome)
    /\ DbFault("ok")

get_volume_call(h, vol_id) ==
    LET done == get_volume(db, h, vol_id)
    IN /\ HandleCall("get_volume", h, <<vol_id>>, done)
       /\ db' = done.db

add_volume_call(h, vol_id, connection_info) ==
    LET done == add_volume(db, h, vol_id, connection_info)
    IN /\ HandleCall("add_volume", h, <<vol_id, connection_info>>, done)
       /\ db' = IF done.outcome.status = "ok"
                THEN [done.db EXCEPT
                         !.stored = Put(@, vol_id, connection_info),
                         !.known = @ \cup {vol_id}]
                ELSE done.db

update_volume_call(h, vol_id, multipath_id) ==
    LET done == update_volume(db, h, vol_id, "path", "attachment",
                              multipath_id)
    IN /\ HandleCall("update_volume", h, <<vol_id, multipath_id>>, done)
       /\ db' = IF done.outcome.status = "ok"
                THEN [done.db EXCEPT !.stored = Delete(@, vol_id)]
                ELSE done.db

remove_volume_call(h, vol_id) ==
    LET done == remove_volume(db, h, vol_id)
    IN /\ HandleCall("remove_volume", h, <<vol_id>>, done)
       /\ db' = IF done.outcome.status = "ok"
                THEN [done.db EXCEPT !.stored = Delete(@, vol_id),
                                     !.known = @ \ {vol_id}]
                ELSE done.db

handle_version_info_call(h) ==
    LET done == version_info(db, h)
    IN /\ HandleCall("handle.version_info", h, <<>>, done)
       /\ db' = done.db

owns_multipath_call(h, multipath_id) ==
    LET done == owns_multipath(db, h, multipath_id)
    IN /\ HandleCall("owns_multipath", h, <<multipath_id>>, done)
       /\ db' = done.db

DbNext ==
    \/ open_call
    \/ \E h \in 1..MaxHandles : close_call(h)
    \/ create_db_call
    \/ version_info_call
    \/ \E h \in 1..MaxHandles : handle_version_info_call(h)

DbSpec == DbInit /\ [][DbNext]_vars

\* The database after create_db() returned, with no handle open.
VolumeInit ==
    /\ storage = <<>>
    /\ resources = <<>>
    /\ index = <<>>
    /\ pc = Idle
    /\ result = NoResult
    /\ rd = {}
    /\ calls = NoCalls
    /\ faults = 0
    /\ added = {}
    /\ db = _close_env(create_steps(_open_env(NoDb, TRUE, "ok"), 4))
    /\ other_index = <<>>

VolumeNext ==
    \/ open_call
    \/ \E h \in 1..MaxHandles : close_call(h)
    \/ \E h \in 1..MaxHandles, vol_id \in VolIds : get_volume_call(h, vol_id)
    \/ \E h \in 1..MaxHandles, vol_id \in VolIds,
          connection_info \in ConnInfos :
          add_volume_call(h, vol_id, connection_info)
    \/ \E h \in 1..MaxHandles, vol_id \in VolIds,
          multipath_id \in MultipathIds :
          update_volume_call(h, vol_id, multipath_id)
    \/ \E h \in 1..MaxHandles, vol_id \in VolIds :
          remove_volume_call(h, vol_id)
    \/ \E h \in 1..MaxHandles : handle_version_info_call(h)
    \/ \E h \in 1..MaxHandles, multipath_id \in MultipathIds \ {""} :
          owns_multipath_call(h, multipath_id)

VolumeSpec == VolumeInit /\ [][VolumeNext]_vars

\* C20: after every call _DB._users is the number of handles that open
\* returned and close was not called on, and the environment is open
\* exactly when that number is greater than zero; no call raises
\* RuntimeError.
C20_RefCount ==
    /\ db.users = Cardinality(db.live)
    /\ db.env = "open" <=> db.users > 0
    /\ result.status /= "RuntimeError"

\* Two handles were opened, one of them was closed twice, and the
\* environment is still open for the other.
C20_Witness ==
    /\ result.op = "close"
    /\ result.status = "ok"
    /\ \E h \in 1..Len(db.handles) :
          /\ db.handles[h] = "closed"
          /\ result.value = <<h, FALSE>>
    /\ db.users = 1
    /\ db.env = "open"
    /\ faults = MaxFaults

\* The methods of a handle that use the database.
HandleOps ==
    {"get_volume", "add_volume", "update_volume", "remove_volume",
     "handle.version_info", "owns_multipath"}

\* The call that returns in this step is a method of HandleOps, on a
\* handle that is closed or not (closed).
HandleStep(closed) ==
    /\ result'.op \in HandleOps
    /\ (db.handles[result'.lease_id[1]] = "closed") = closed

\* C21: a method of a handle that close was called on raises Closed and
\* leaves the database, the handles and the reference count as they were,
\* and close on such a handle changes nothing.
C21_ClosedHandle ==
    /\ [][HandleStep(TRUE) => (result'.status = "Closed" /\ db' = db)]_vars
    /\ [][(/\ result'.op = "close"
           /\ result'.status = "ok"
           /\ db.handles[result'.value[1]] = "closed")
          => db' = db]_vars

\* update_volume of a stored volume on a closed handle raised Closed while
\* the environment is open for another handle.
C21_Witness ==
    /\ result.op = "update_volume"
    /\ result.status = "Closed"
    /\ result.lease_id[2] \in DOMAIN db.volumes
    /\ db.env = "open"

\* C24: get_volume of a volume that add_volume stored, and that no call
\* updated or removed since, returns {"connection_info": ci} on every open
\* handle, and get_volume of an id that was never added, or was removed,
\* raises NotFound.
C24_AddGetRoundTrip ==
    /\ \A h \in db.live, vol_id \in VolIds :
          /\ vol_id \in DOMAIN db.stored
                => get_volume(db, h, vol_id).outcome
                      = Return([connection_info |-> db.stored[vol_id]])
          /\ vol_id \notin db.known
                => get_volume(db, h, vol_id).outcome = Raise("NotFound")
    /\ (result.op = "get_volume" /\ result.status /= "Closed")
          => /\ result.lease_id[2] \in DOMAIN db.stored
                   => /\ result.status = "ok"
                      /\ result.value
                            = [connection_info |->
                                  db.stored[result.lease_id[2]]]
             /\ result.lease_id[2] \notin db.known
                   => result.status = "NotFound"

\* get_volume returned the volume on a handle opened after the handle that
\* stored it, and every other, was closed.
C24_Witness ==
    /\ result.op = "get_volume"
    /\ result.status = "ok"
    /\ result.lease_id[2] \in DOMAIN db.stored
    /\ db.reopened
    /\ Cardinality(db.live) = 1

\* C25: add_volume of an id that is stored raises VolumeAlreadyExists with
\* the stored record, and leaves the volumes and the multipaths as they
\* were.
C25_DuplicateAdd ==
    [][(/\ result'.op = "add_volume"
        /\ HandleStep(FALSE)
        /\ result'.lease_id[2] \in DOMAIN db.volumes)
       => /\ result'.status = "VolumeAlreadyExists"
          /\ result'.value = json_loads(db.volumes[result'.lease_id[2]])
          /\ db'.volumes = db.volumes
          /\ db'.multipaths = db.multipaths]_vars

\* add_volume with another connection info of a volume that was updated
\* with a multipath id raised VolumeAlreadyExists.
C25_Witness ==
    /\ result.op = "add_volume"
    /\ result.status = "VolumeAlreadyExists"
    /\ "multipath_id" \in DOMAIN result.value
    /\ result.value["connection_info"] /= result.lease_id[3]
    /\ DOMAIN db.volumes = VolIds

\* C26: update_volume of an id that is not stored raises NotFound and
\* leaves the volumes and the multipaths as they were; of a stored id, it
\* returns, the record keeps its connection_info and has the path and the
\* attachment, the other records are as they were, and when a multipath id
\* is given the record has it and owns_multipath of it is true, otherwise
\* the multipath id of the record and the multipaths are as they were.
C26_UpdateVolume ==
    [][(result'.op = "update_volume" /\ HandleStep(FALSE))
       => LET h == result'.lease_id[1]
              vol_id == result'.lease_id[2]
              multipath_id == result'.lease_id[3]
          IN IF vol_id \notin DOMAIN db.volumes
             THEN /\ result'.status = "NotFound"
                  /\ db'.volumes = db.volumes
                  /\ db'.multipaths = db.multipaths
             ELSE LET old == json_loads(db.volumes[vol_id])
                      new == json_loads(db'.volumes[vol_id])
                  IN /\ result'.status = "ok"
                     /\ DOMAIN db'.volumes = DOMAIN db.volumes
                     /\ \A other \in DOMAIN db.volumes \ {vol_id} :
                           db'.volumes[other] = db.volumes[other]
                     /\ new["connection_info"] = old["connection_info"]
                     /\ new["path"] = "path"
                     /\ new["attachment"] = "attachment"
                     /\ IF multipath_id /= ""
                        THEN /\ new["multipath_id"] = multipath_id
                             /\ db'.multipaths
                                   = Put(db.multipaths, multipath_id, vol_id)
                             /\ owns_multipath(db', h, multipath_id).outcome
                                   = Return(TRUE)
                        ELSE /\ db'.multipaths = db.multipaths
                             /\ DOMAIN new
                                   = DOMAIN old \cup {"path", "attachment"}
                             /\ "multipath_id" \in DOMAIN old
                                   => new["multipath_id"]
                                         = old["multipath_id"]]_vars

\* update_volume with a multipath id returned, and owns_multipath of the
\* id is true.
C26_Witness ==
    /\ result.op = "update_volume"
    /\ result.status = "ok"
    /\ result.lease_id[3] = "m1"
    /\ db.multipaths["m1"] = result.lease_id[2]

\* C27: after remove_volume of a volume whose record had a multipath id
\* returns, get_volume of the volume raises NotFound and owns_multipath of
\* the multipath id is false.
C27_RemoveVolume ==
    [][(/\ result'.op = "remove_volume"
        /\ HandleStep(FALSE)
        /\ result'.status = "ok")
       => LET h == result'.lease_id[1]
              vol_id == result'.lease_id[2]
              old == json_loads(db.volumes[vol_id])
          IN /\ get_volume(db', h, vol_id).outcome = Raise("NotFound")
             /\ "multipath_id" \in DOMAIN old
                   => owns_multipath(db', h, old["multipath_id"]).outcome
                         = Return(FALSE)]_vars

VersionOps == {"version_info", "handle.version_info"}

\* C28: version_info, of the module or of an open handle, returns the
\* entry of the greatest key of the versions sub-database, whose version
\* is VERSION, and raises InvalidDatabase when the sub-database is empty.
C28_VersionInfo ==
    (result.op \in VersionOps /\ result.status \notin {"Closed", "lmdb.Error"})
       => IF DOMAIN db.versions = {}
          THEN result.status = "InvalidDatabase"
          ELSE /\ result.status = "ok"
               /\ result.value = json_loads(db.versions[last_key(db.versions)])
               /\ \A key \in DOMAIN db.versions :
                     ParseDigits(key) <= result.value["version"]
               /\ result.value["version"] = VERSION

\* version_info returned the version after create_db returned twice.
C28_Witness ==
    /\ result.op = "version_info"
    /\ result.status = "ok"
    /\ result.value["version"] = VERSION
    /\ db.creates = 2

\* C23: in no state do the three sub-databases exist while the versions
\* sub-database has no version record.
C23_AtomicCreate ==
    ~(/\ db.dbs = {"volumes", "multipaths", "versions"}
      /\ DOMAIN db.versions = {})

-----------------------------------------------------------------------------
(* managedvolumedb: _DB.create in one thread, open and close in others *)

\* The thread in _DB.create: the steps of the body that are done, and
\* whether the body is running, ended or raised.
CreatePc(steps, status) ==
    [op |-> "create", lease_id |-> <<status>>, phase |-> steps, recnum |-> -1]

\* _DB.create up to the return of _open_env(create=True), which holds the
\* lock of the class.
create_begin ==
    /\ pc = Idle
    /\ \E outcome \in LmdbOutcomes :
          LET opened == _open_env(db, TRUE, outcome)
          IN IF opened.users = -1
             THEN /\ result' = Result("create_db", <<>>, Raise("lmdb.Error"))
                  /\ faults' = faults + 1
                  /\ UNCHANGED <<db, pc, other_index>>
             ELSE /\ db' = opened
                  /\ pc' = CreatePc(0, "running")
                  /\ UNCHANGED <<result, faults>>
    /\ UNCHANGED <<storage, resources, index, rd, calls, added, other_index>>

\* The next step of the body of _DB.create, without the lock: it is done,
\* or it raises.
create_step ==
    /\ pc.op = "create"
    /\ pc.lease_id = <<"running">>
    /\ \/ /\ db' = create_steps(db, pc.phase + 1)
          /\ pc' = CreatePc(pc.phase + 1,
                            IF pc.phase + 1 = 4 THEN "ok" ELSE "running")
          /\ UNCHANGED faults
       \/ /\ faults < MaxFaults
          /\ faults' = faults + 1
          /\ pc' = CreatePc(pc.phase, "lmdb.Error")
          /\ UNCHANGED <<db, other_index>>
    /\ UNCHANGED <<storage, resources, index, result, rd, calls, added,
                   other_index>>

\* The finally clause of _DB.create: _close_env, which holds the lock of
\* the class; create returns or raises.
create_end ==
    /\ pc.op = "create"
    /\ pc.lease_id /= <<"running">>
    /\ LET closed == _close_env(db)
       IN /\ db' = [IF closed.users = -1 THEN db ELSE closed
                       EXCEPT !.creates =
                           IF pc.lease_id = <<"ok">> /\ @ < 2 THEN @ + 1 ELSE @]
          /\ result' = Result("create_db", <<>>,
                              IF closed.users = -1 THEN Raise("RuntimeError")
                              ELSE IF pc.lease_id = <<"ok">> THEN Return(<<>>)
                              ELSE Raise(pc.lease_id[1]))
    /\ pc' = Idle
    /\ UNCHANGED <<storage, resources, index, rd, calls, faults, added,
                   other_index>>

ThreadNext ==
    \/ create_begin
    \/ create_step
    \/ create_end
    \/ open_call
    \/ \E h \in 1..MaxHandles : close_call(h)

ThreadSpec == DbInit /\ [][ThreadNext]_vars

\* C22 as stated: open returns no handle while a create is in progress.
C22_OpenFailsDuringCreate ==
    [][Len(db'.handles) > Len(db.handles) => pc.op /= "create"]_vars

\* C22: open while a create is in progress returns a handle on the
\* environment that create opened; _users counts the create and the open
\* handles, and the environment stays open until the create has ended and
\* the handles are closed.
C22_OpenSharesCreate ==
    /\ [][(pc.op = "create" /\ result'.op = "open" /\ result' /= result)
          => /\ result'.status = "ok"
             /\ Len(db'.handles) = Len(db.handles) + 1
             /\ db'.users = db.users + 1
             /\ db'.env = "open"]_vars
    /\ [](/\ db.users = Cardinality(db.live)
                           + (IF pc.op = "create" THEN 1 ELSE 0)
          /\ db.env = "open" <=> db.users > 0)

\* open has returned the first handle of the process while the first
\* create, which nothing has failed, has not written the version record.
C22_Witness ==
    /\ pc.op = "create"
    /\ pc.phase < 4
    /\ faults = 0
    /\ db.creates = 0
    /\ result.op = "open"
    /\ result.status = "ok"
    /\ result.value = <<1>>
    /\ db.live = {1}
    /\ db.users = 2
    /\ db.env = "open"
    /\ DOMAIN db.versions = {}

-----------------------------------------------------------------------------
(* xlease: DirectFile.readinto *)

\* The longest buffer and the longest file, in blocks.
MaxBlocks == 3

\* The reads at the end of the file that the history counts.
MaxEofReads == 2

\* The thread in DirectFile.readinto(buf): the branch of six.PY2, len(buf),
\* the size and the position of the file, pos, and how many times
\* self._file.readinto found the end of the file.
ReadPc(PY2, len, size, offset, pos, eof) ==
    [op |-> "readinto", lease_id |-> <<PY2, len, size, offset, eof>>,
     phase |-> pos, recnum |-> -1]

\* What io.FileIO.readinto can return for a buffer of want blocks: one
\* read(2), which reads nothing at the end of the file.
FileIO_readinto(size, offset, want) ==
    IF offset >= size THEN {0}
    ELSE 1..(IF want < size - offset THEN want ELSE size - offset)

\* DirectFile.readinto is called: pos = 0.
readinto_call ==
    /\ pc = Idle
    /\ \E PY2 \in BOOLEAN, len \in 1..MaxBlocks, size \in 0..MaxBlocks :
          \E offset \in 0..size :
             pc' = ReadPc(PY2, len, size, offset, 0, 0)
    /\ UNCHANGED <<storage, resources, index, result, rd, calls, faults,
                   added, db, other_index>>

\* One turn of "while pos < len(buf)". With six.PY2 the read is into rbuf,
\* which is as long as buf, and buf.write raises ValueError when the bytes
\* do not fit in what is left of buf.
readinto_loop ==
    /\ pc.op = "readinto"
    /\ LET PY2 == pc.lease_id[1]
           len == pc.lease_id[2]
           size == pc.lease_id[3]
           offset == pc.lease_id[4]
           eof == pc.lease_id[5]
           pos == pc.phase
       IN /\ pos < len
          /\ \E nread \in FileIO_readinto(size, offset,
                                          IF PY2 THEN len ELSE len - pos) :
                IF PY2 /\ pos + nread > len
                THEN /\ result' = Result("readinto", <<>>, Raise("ValueError"))
                     /\ pc' = Idle
                ELSE /\ pc' = ReadPc(PY2, len, size, offset + nread,
                                     pos + nread,
                                     IF nread = 0 /\ eof < MaxEofReads
                                     THEN eof + 1 ELSE eof)
                     /\ UNCHANGED result
    /\ UNCHANGED <<storage, resources, index, rd, calls, faults, added, db,
                   other_index>>

\* "return pos", when pos < len(buf) is false.
readinto_return ==
    /\ pc.op = "readinto"
    /\ pc.phase >= pc.lease_id[2]
    /\ result' = Result("readinto", <<>>, Return(<<pc.phase>>))
    /\ pc' = Idle
    /\ UNCHANGED <<storage, resources, index, rd, calls, faults, added, db,
                   other_index>>

ReadNext ==
    \/ readinto_call
    \/ readinto_loop
    \/ readinto_return

ReadSpec == Init /\ [][ReadNext]_vars

\* C29: DirectFile.readinto returns the short read: once self._file.readinto
\* has found the end of the file, the loop does not read the file again.
C29_ShortReadReturned ==
    pc.op = "readinto" => pc.lease_id[5] <= 1

\* C30: a call of _write_record that raises leaves the index in memory as
\* it was, whether or not the block reached storage; a call that changes
\* the index has returned, and every byte it changed in the index is on
\* storage by then.
C30_WriteOrder ==
    [][calls'.write = calls.write + 1
       => /\ result'.status \in {"OSError", "ValueError"} => index' = index
          /\ index' /= index
                => /\ result'.status \notin {"OSError", "ValueError"}
                   /\ \A k \in 1..INDEX_SIZE :
                         index'[k] /= index[k]
                            => VolumeIndex_init(storage')[k] = index'[k]]_vars

\* The first _write_record of an add raised after the block reached
\* storage: storage has the record and the index does not.
C30_Witness ==
    /\ result.op = "add"
    /\ result.status = "OSError"
    /\ calls = [write |-> 1, sanlock |-> 0]
    /\ VolumeIndex_init(storage) /= index
    /\ find_record(index, result.lease_id) = -1
    /\ find_record(VolumeIndex_init(storage), result.lease_id) /= -1

\* The record number and the record of the _write_record call of this step.
FlushRecnum ==
    IF pc /= Idle THEN pc.recnum
    ELSE IF CalledOp = "add" THEN add_find(index, CalledId).value
    ELSE remove_find(index, CalledId).value

FlushRecord ==
    IF pc = Idle
    THEN Record(CalledId, lease_offset(FlushRecnum), TRUE)
    ELSE Record(IF pc.op = "add" THEN pc.lease_id ELSE BLANK_LEASE,
                lease_offset(pc.recnum), FALSE)

\* A call of _write_record raised OSError in this step.
FlushFailed ==
    /\ calls'.write = calls.write + 1
    /\ result'.status = "OSError"

\* C31 as stated: after a flush that reported an error the record on
\* storage is as it was before the flush or is updating, so no error is
\* reported for a flush of phase 3 whose record reached storage.
C31_FailedFlushPreviousOrUpdating ==
    [][FlushFailed
       => \/ RecordBytes(VolumeIndex_init(storage'), FlushRecnum)
                = RecordBytes(VolumeIndex_init(storage), FlushRecnum)
          \/ read_record(VolumeIndex_init(storage'), FlushRecnum).updating]_vars

\* C31: after a flush that reported an error the record on storage is
\* whole: it is as it was before the flush or it is the record the flush
\* was writing, which after a failed flush of phase 3 is the final state.
C31_FailedFlushPreviousOrWritten ==
    [][FlushFailed
       => RecordBytes(VolumeIndex_init(storage'), FlushRecnum)
             \in {RecordBytes(VolumeIndex_init(storage), FlushRecnum),
                  Record_bytes(FlushRecord)}]_vars

\* The last flush of an add raised OSError and the record on storage is
\* the used record of the lease, which the index has as updating.
C31_Witness ==
    /\ result.op = "add"
    /\ result.status = "OSError"
    /\ calls = [write |-> 2, sanlock |-> 1]
    /\ \E recnum \in 0..(MAX_RECORDS - 1) :
          /\ read_record(VolumeIndex_init(storage), recnum)
                = Record(result.lease_id, lease_offset(recnum), FALSE)
          /\ read_record(index, recnum)
                = Record(result.lease_id, lease_offset(recnum), TRUE)

\* C32: the record add allocates is free in the index of the instance,
\* and on storage it is not a record of another lease id that a failed add
\* or remove left there.
C32_NoReuseOfUncommitted ==
    [][(pc = Idle /\ pc'.op = "add" /\ pc'.phase = 2)
       => LET record == read_record(index, pc'.recnum)
              stored == read_record(VolumeIndex_init(storage), pc'.recnum)
          IN /\ record.resource = BLANK_LEASE
             /\ ~record.updating
             /\ stored.resource \in {BLANK_LEASE, pc'.lease_id}]_vars

\* The record recnum of buf is free: a valid record with an empty resource
\* and the updating flag clear.
IsFreeRecord(buf, recnum) ==
    \A record \in {read_record(buf, recnum)} :
        /\ ~IsInvalidRecord(record)
        /\ record.resource = BLANK_LEASE
        /\ ~record.updating

\* C33: sanlock holds no resource at the lease offset of a record that is
\* free on storage; a record becomes free on storage only when sanlock has
\* no resource at its offset; and a resource is written at an offset only
\* when the record of that offset is on storage as updating with that
\* resource.
C33_FreeMeansUnallocated ==
    /\ [](\A recnum \in Records :
             IsFreeRecord(storage, recnum)
                => resources[lease_offset(recnum)] = NoResource)
    /\ [][\A recnum \in Records :
             (~IsFreeRecord(storage, recnum) /\ IsFreeRecord(storage', recnum))
                => /\ resources[lease_offset(recnum)] = NoResource
                   /\ resources' = resources]_vars
    /\ [][\A recnum \in Records :
             (/\ resources'[lease_offset(recnum)]
                    /= resources[lease_offset(recnum)]
              /\ resources'[lease_offset(recnum)] /= NoResource)
                => \A record \in {read_record(storage, recnum)} :
                      /\ record.updating
                      /\ resources'[lease_offset(recnum)]
                            = <<LOCKSPACE, record.resource>>
                      /\ storage' = storage]_vars

\* remove returned after an error in an earlier call: its record is free
\* on storage and in the index and sanlock has no resource at its offset.
C33_Witness ==
    /\ result.op = "remove"
    /\ result.status = "ok"
    /\ calls = [write |-> 2, sanlock |-> 1]
    /\ faults > 0
    /\ \E recnum \in Records :
          /\ IsFreeRecord(storage, recnum)
          /\ IsFreeRecord(index, recnum)
          /\ resources[lease_offset(recnum)] = NoResource
          /\ \E other \in Records :
                resources[lease_offset(other)] /= NoResource

-----------------------------------------------------------------------------
(* xlease: VolumeIndex.copy_block and RecordBlock.write_record *)

\* block = index.copy_block(recnum), for a record number of the index.
copy_block_call(recnum) ==
    /\ pc.op \in {"idle", "block"}
    /\ pc' = [op |-> "block", lease_id |-> <<>>, phase |-> 0,
              recnum |-> recnum]
    /\ result' = Result("copy_block", <<>>,
                        Return(<<copy_block(index, recnum)>>))
    /\ UNCHANGED <<storage, resources, index, rd, calls, faults, added, db,
                   other_index>>

\* block.write_record(recnum, record) on the block of the last copy_block,
\* for any record number; the result has the block before and after the
\* call and the record.
write_record_call(recnum, record) ==
    /\ pc.op = "block"
    /\ LET block == result.value[IF result.op = "copy_block" THEN 1 ELSE 2]
       IN result' =
             Result("write_record", <<recnum>>,
                    IF RecordBlock_record_offset(block, recnum) = -1
                    THEN [status |-> "ValueError",
                          value |-> <<block, block, record>>]
                    ELSE Return(<<block,
                                  RecordBlock_write_record(block, recnum,
                                                           record),
                                  record>>))
    /\ UNCHANGED <<storage, resources, index, pc, rd, calls, faults, added,
                   db, other_index>>

BlockNext ==
    \/ \E recnum \in Records : copy_block_call(recnum)
    \/ \E recnum \in (0 - 1)..MAX_RECORDS,
          lease_id \in {BLANK_LEASE, <<97>>, <<97, 98>>},
          updating \in BOOLEAN :
          write_record_call(recnum,
                            Record(lease_id,
                                   lease_offset(IF recnum < 0 THEN 0
                                                ELSE recnum),
                                   updating))

BlockSpec == Init /\ [][BlockNext]_vars

\* The bytes of record recnum of the index are inside block.
RecordInBlock(block, recnum) ==
    /\ block.offset <= VolumeIndex_record_offset(recnum)
    /\ VolumeIndex_record_offset(recnum) + RECORD_SIZE
          <= block.offset + BLOCK_SIZE

\* C34: the block copy_block(i) returns is one aligned block of the index
\* buffer that has all of record i, and write_record(i, r) on it does not
\* raise; write_record(j, r) on a block raises ValueError exactly when
\* record j is not inside the block, and then leaves the block as it was;
\* otherwise it writes the bytes of r at record j and nothing else.
C34_BlockContainment ==
    /\ result.op = "copy_block"
          => \A block \in {result.value[1]} :
                /\ block.offset % BLOCK_SIZE = 0
                /\ block.offset + BLOCK_SIZE <= INDEX_SIZE
                /\ block.buf = Slice(index, block.offset, BLOCK_SIZE)
                /\ RecordInBlock(block, pc.recnum)
                /\ RecordBlock_record_offset(block, pc.recnum) /= -1
    /\ result.op = "write_record"
          => \A before \in {result.value[1]}, after \in {result.value[2]},
                recnum \in {result.lease_id[1]} :
                /\ result.status = "ValueError"
                      <=> ~RecordInBlock(before, recnum)
                /\ result.status \in {"ok", "ValueError"}
                /\ result.status = "ValueError" => after = before
                /\ recnum = pc.recnum => result.status = "ok"
                /\ result.status = "ok"
                      => \A offset \in {VolumeIndex_record_offset(recnum)
                                           - before.offset} :
                            /\ after.offset = before.offset
                            /\ Len(after.buf) = BLOCK_SIZE
                            /\ Slice(after.buf, offset, RECORD_SIZE)
                                  = Record_bytes(result.value[3])
                            /\ \A k \in 1..BLOCK_SIZE :
                                  (k <= offset \/ k > offset + RECORD_SIZE)
                                     => after.buf[k] = before.buf[k]

\* write_record raised for a record of the index that is in another block
\* than the one copied, after a write to the block that did not raise.
C34_Witness ==
    /\ result.op = "write_record"
    /\ result.status = "ValueError"
    /\ result.lease_id[1] \in Records
    /\ result.lease_id[1] /= pc.recnum
    /\ result.value[1] /= copy_block(index, pc.recnum)

-----------------------------------------------------------------------------
(* xlease: the layout constants of the source, for a block size *)

\* The block sizes of storage: 512 and 4096 bytes.
BlockSizes == {SOURCE_BLOCK_SIZE, 8 * SOURCE_BLOCK_SIZE}

\* The layout constants of xlease.py as the module computes them from
\* BLOCK_SIZE.
SourceLayout(block_size) ==
    [BLOCK_SIZE |-> block_size,
     SLOT_SIZE |-> 2048 * block_size,
     METADATA_SIZE |-> block_size,
     RECORD_BASE |-> block_size,
     INDEX_SIZE |-> block_size + (SOURCE_MAX_RECORDS * RECORD_SIZE)]

\* VolumeIndex.copy_block with these constants: the offset in the index
\* buffer of the block that RecordBlock.__init__ copies.
source_block_start(layout, recnum) ==
    LET offset == layout.RECORD_BASE + recnum * RECORD_SIZE
    IN offset - (offset % layout.BLOCK_SIZE)

\* copy_block(recnum) on an index of the source with block_size.
source_copy_block_call(block_size, recnum) ==
    /\ pc = Idle
    /\ result = NoResult
    /\ result' = Result("copy_block", <<block_size, recnum>>,
                        Return(<<source_block_start(SourceLayout(block_size),
                                                    recnum)>>))
    /\ UNCHANGED <<storage, resources, index, pc, rd, calls, faults, added,
                   db, other_index>>

LayoutNext ==
    \E block_size \in BlockSizes, recnum \in 0..(SOURCE_MAX_RECORDS - 1) :
        source_copy_block_call(block_size, recnum)

LayoutSpec == Init /\ [][LayoutNext]_vars

\* C35: for both block sizes INDEX_SIZE is a whole number of blocks and at
\* most SLOT_SIZE, and the block of every record ends inside the
\* INDEX_SIZE bytes of the index buffer.
C35_LayoutFits ==
    result.op = "copy_block"
       => \A layout \in {SourceLayout(result.lease_id[1])} :
             /\ layout.INDEX_SIZE % layout.BLOCK_SIZE = 0
             /\ layout.INDEX_SIZE <= layout.SLOT_SIZE
             /\ result.value[1] + layout.BLOCK_SIZE <= layout.INDEX_SIZE

-----------------------------------------------------------------------------
(* managedvolumedb: _DB.close called by two threads *)

\* The threads that call close.
CloseThreads == {1, 2}

\* Where each thread is in _DB.close: <<0, "">> outside of it, or the handle
\* it closes and the statement it is about to run.
ClosePcs == IF pc = Idle THEN <<<<0, "">>, <<0, "">>>> ELSE pc.lease_id

ClosePc(pcs) ==
    IF pcs = <<<<0, "">>, <<0, "">>>> THEN Idle
    ELSE [op |-> "close", lease_id |-> pcs, phase |-> 0, recnum |-> -1]

\* Thread t calls h.close() and runs "if self._env is not _CLOSED_ENV",
\* without a lock.
close_test(t, h) ==
    /\ h \in 1..Len(db.handles)
    /\ ClosePcs[t] = <<0, "">>
    /\ IF handle_env(db, h) /= "closed"
       THEN /\ pc' = ClosePc([ClosePcs EXCEPT ![t] = <<h, "set">>])
            /\ UNCHANGED result
       ELSE /\ result' = Result("close", <<>>, Return(<<h, h \in db.live>>))
            /\ UNCHANGED pc
    /\ db' = [db EXCEPT !.live = @ \ {h}]
    /\ UNCHANGED <<storage, resources, index, rd, calls, faults, added,
                   other_index>>

\* "self._env = _CLOSED_ENV"
close_set(t) ==
    /\ ClosePcs[t][2] = "set"
    /\ db' = [db EXCEPT !.handles[ClosePcs[t][1]] = "closed"]
    /\ pc' = ClosePc([ClosePcs EXCEPT ![t] = <<@[1], "_close_env">>])
    /\ UNCHANGED <<storage, resources, index, result, rd, calls, faults,
                   added, other_index>>

\* "self._close_env()", which holds the lock of the class; close returns
\* or raises RuntimeError.
close_close_env(t) ==
    /\ ClosePcs[t][2] = "_close_env"
    /\ LET closed == _close_env(db)
       IN IF closed.users = -1
          THEN /\ UNCHANGED <<db, other_index>>
               /\ result' = Result("close", <<>>, Raise("RuntimeError"))
          ELSE /\ db' = closed
               /\ result' = Result("close", <<>>,
                                   Return(<<ClosePcs[t][1], TRUE>>))
    /\ pc' = ClosePc([ClosePcs EXCEPT ![t] = <<0, "">>])
    /\ UNCHANGED <<storage, resources, index, rd, calls, faults, added,
                   other_index>>

RaceNext ==
    \/ open_call
    \/ create_db_call
    \/ \E t \in CloseThreads, h \in 1..MaxHandles : close_test(t, h)
    \/ \E t \in CloseThreads : close_set(t)
    \/ \E t \in CloseThreads : close_close_env(t)

RaceSpec == DbInit /\ [][RaceNext]_vars

\* C36: with threads in open, create_db and close, two of them in close of
\* one handle too, _users is at least the number of handles that close was
\* not called on, the environment is open while there is such a handle,
\* and close does not raise RuntimeError.
C36_ThreadSafeRefCount ==
    /\ db.users >= Cardinality(db.live)
    /\ db.live /= {} => db.env = "open"
    /\ ~(result.op = "close" /\ result.status = "RuntimeError")

\* The records of buf that hold resource with the updating flag set.
UpdatingRecordsOf(buf, resource) ==
    {recnum \in RecordsOf(buf, resource) : read_record(buf, recnum).updating}

\* C37: remove(L) called while a record of L is updating on storage or in
\* the index does not raise NoSuchLease or LeaseUpdating; when its writes
\* and the sanlock call succeed it returns, no record of L is left on
\* storage or in the index, and the checks of a following add(L) pass.
C37_RecoveryByRemove ==
    /\ [][(/\ Called("remove")
           /\ UpdatingRecordsOf(storage, CalledId)
                 \cup UpdatingRecordsOf(index, CalledId) /= {})
          => result'.status \notin {"NoSuchLease", "LeaseUpdating"}]_vars
    /\ [][(/\ pc.op = "remove"
           /\ pc.phase = 3
           /\ result'.op = "remove"
           /\ result'.status = "ok")
          => /\ RecordsOf(storage', pc.lease_id) = {}
             /\ RecordsOf(index', pc.lease_id) = {}
             /\ add_find(index', pc.lease_id).status = "ok"]_vars

-----------------------------------------------------------------------------
(* xlease: two LeasesVolume instances on one volume *)

\* Both instances are constructed on the formatted volume.
TwoInit ==
    /\ storage = format_index([k \in 1..INDEX_SIZE |-> NUL])
    /\ resources = [offset \in LeaseOffsets |-> NoResource]
    /\ index = VolumeIndex_init(storage)
    /\ pc = Idle
    /\ result = NoResult
    /\ rd = {}
    /\ calls = NoCalls
    /\ faults = 0
    /\ added = [lease_id \in LeaseIds |-> <<>>]
    /\ db = NoDb
    /\ other_index = VolumeIndex_init(storage)

\* The callers give the volume to the other instance, between operations:
\* the operations of the two instances do not overlap.  Each instance
\* keeps the index it has.
Switch ==
    /\ Ready
    /\ pc = Idle
    /\ index' = other_index
    /\ other_index' = index
    /\ UNCHANGED <<storage, resources, pc, result, rd, calls, faults, added,
                   db>>

\* The lease ids the callers of the two instances use: "a", "b".
TwoIds == {<<97>>, <<98>>}

TwoNext ==
    \/ \E lease_id \in TwoIds : add_phase1(lease_id)
    \/ add_phase2
    \/ add_phase3
    \/ \E lease_id \in TwoIds : remove_phase1(lease_id)
    \/ remove_phase2
    \/ remove_phase3
    \/ Reopen
    \/ TakeResult
    \/ Switch

TwoSpec == TwoInit /\ [][TwoNext]_vars

\* A call of _write_record returned in this step.
FlushDone ==
    /\ calls'.write = calls.write + 1
    /\ result'.status \notin {"OSError", "ValueError"}

\* C38 as stated: with two instances that load the index once, in a run
\* without errors, a write of one instance leaves on storage every record
\* that the other instance changed, which are the records that differ
\* from the index of the writer, and add allocates no record that is in
\* use on storage.
C38_LongLivedInstances ==
    [][(FlushDone /\ faults' = 0)
       => /\ \A recnum \in Records :
                RecordBytes(storage, recnum) /= RecordBytes(index, recnum)
                   => RecordBytes(storage', recnum)
                         = RecordBytes(storage, recnum)
          /\ Called("add")
                => \A record \in {read_record(storage, FlushRecnum)} :
                      record.resource = BLANK_LEASE \/ record.updating]_vars

\* C38: a write of an instance whose index is what storage has, as it is
\* for an instance constructed after the last change of the other one,
\* changes on storage the record it writes and no other, and add
\* allocates a record that is free on storage.
C38_LoadedInstance ==
    [][(FlushDone /\ index = VolumeIndex_init(storage))
       => /\ \A recnum \in Records \ {FlushRecnum} :
                RecordBytes(storage', recnum) = RecordBytes(storage, recnum)
          /\ RecordBytes(storage', FlushRecnum) = Record_bytes(FlushRecord)
          /\ index' = VolumeIndex_init(storage')
          /\ Called("add") => IsFreeRecord(storage, FlushRecnum)]_vars

\* An add of "b" returned on an instance that was constructed again after
\* the other instance had added "a": both leases are in use on storage.
C38_Witness ==
    /\ result.op = "add"
    /\ result.status = "ok"
    /\ result.lease_id = <<98>>
    /\ index = VolumeIndex_init(storage)
    /\ other_index /= index
    /\ find_record(other_index, <<97>>) /= -1
    /\ find_record(other_index, <<98>>) = -1
    /\ lookup(index, <<97>>).status = "ok"
    /\ lookup(index, <<98>>).status = "ok"

-----------------------------------------------------------------------------
(* managedvolumedb: multipath ids that can be the id of a volume *)

\* The multipath ids given to update_volume: "m1", and the id of a volume.
FrameMultipathIds == {"m1", "v2"}

FrameNext ==
    \/ open_call
    \/ \E h \in 1..MaxHandles, vol_id \in VolIds :
          add_volume_call(h, vol_id, "c1")
    \/ \E h \in 1..MaxHandles, vol_id \in VolIds,
          multipath_id \in FrameMultipathIds :
          update_volume_call(h, vol_id, multipath_id)
    \/ \E h \in 1..MaxHandles, vol_id \in VolIds :
          remove_volume_call(h, vol_id)

FrameSpec == VolumeInit /\ [][FrameNext]_vars

\* C39: remove_volume of a stored id that returns deletes the record of
\* the id from volumes and leaves the record of every other id as it was,
\* also of the id that is the multipath id of the removed volume.
C39_RemoveVolumeFrame ==
    [][(/\ result'.op = "remove_volume"
        /\ HandleStep(FALSE)
        /\ result'.status = "ok")
       => \A vol_id \in {result'.lease_id[2]} :
             /\ DOMAIN db'.volumes = DOMAIN db.volumes \ {vol_id}
             /\ \A other \in DOMAIN db.volumes \ {vol_id} :
                   db'.volumes[other] = db.volumes[other]]_vars

\* C40: every entry of multipaths, from a multipath id to a volume id, has
\* in volumes a record of that volume id with that multipath id, and a
\* multipath id is a key of multipaths, so that owns_multipath is true,
\* exactly when a stored volume has it.
C40_ReverseIndex ==
    /\ \A m \in DOMAIN db.multipaths :
          /\ db.multipaths[m] \in DOMAIN db.volumes
          /\ \A vol_info \in {json_loads(db.volumes[db.multipaths[m]])} :
                /\ "multipath_id" \in DOMAIN vol_info
                /\ vol_info["multipath_id"] = m
    /\ \A v \in DOMAIN db.volumes :
          \A vol_info \in {json_loads(db.volumes[v])} :
             "multipath_id" \in DOMAIN vol_info
                => vol_info["multipath_id"] \in DOMAIN db.multipaths

====
